---- MODULE Spec2Model ----
(***************************************************************************)
(* HVPDB storage engine: one database file (snapshot), its write-ahead    *)
(* log, one process that opens it, and one group "g" of documents with    *)
(* the in-memory indexes of HVPGroup.                                      *)
(*                                                                         *)
(* A document is a record [id, k, t]: its _id and two user fields.  A     *)
(* field value 0 is a field the document does not have (doc.get() gives   *)
(* None); documents and updates never carry an explicit None, queries     *)
(* may.  An id 0 is "no document" (Python None).  Timestamps (_created_at, *)
(* _updated_at, ts) and the before-image "b" are written but never read   *)
(* by any code modelled here and are left out.                             *)
(*                                                                         *)
(* Spec is the one process at work on its database.  SpecSave is several  *)
(* processes in save() and load() on one database, step by step, with the *)
(* three file locks.  SpecOpen is the database used and reopened while    *)
(* the snapshot header changes on disk and another password is tried.     *)
(* SpecReplay is _replay_wal() on every WAL file of a few frames.  SpecIo  *)
(* is the process with writes of the WAL that fail.  SpecRead is a second  *)
(* process in load() beside the process that commits and checkpoints.      *)
(***************************************************************************)
EXTENDS Integers, Sequences, FiniteSets

\* ---------------------------------------------------------------- bounds
MaxId == 2        \* document ids are 1..MaxId
MaxVal == 1       \* non-null field values are 1..MaxVal
MaxSeq == 4       \* an operation starts only while last_sequence < MaxSeq
MaxWal == 4       \* an operation starts only while the WAL holds < MaxWal frames
MaxTxn == 3       \* transaction ids (uuid4) are 1..MaxTxn
MaxSalt == 2      \* key salts (os.urandom) are 1..MaxSalt
MaxOps == 1       \* buffered add_op operations per Transaction object
MaxSteps == 5     \* operations in one run of the model
NumProcs == 3     \* processes that share one database in SpecSave
MaxGen == 2       \* save() calls one process begins in SpecSave
MaxFrames == 4    \* frames of a WAL file given to replay in SpecReplay
MaxCommits == 3   \* transactions the writing process commits in SpecRead

Ids == 1..MaxId
Vals == 1..MaxVal
TxnIds == 1..MaxTxn
Salts == 1..MaxSalt
Fields == {"k", "t"}
Procs == 1..NumProcs
Null == 0
Absent == -1      \* a key that a query or an update does not mention

NoDoc == [id |-> 0, k |-> Null, t |-> Null]
Docs == [id : Ids, k : {Null} \cup Vals, t : {Null} \cup Vals]

\* doc.get(field)
Get(doc, f) == IF f = "k" THEN doc.k ELSE doc.t

\* ------------------------------------------------- the group's dict id -> doc
\* storage.data["groups"][name] is a Python dict: insertion ordered, keyed by
\* _id.  It is a sequence of documents with distinct ids.
GroupIds(g) == {g[i].id : i \in 1..Len(g)}

HasDoc(g, id) == id \in GroupIds(g)

DocOf(g, id) == IF HasDoc(g, id)
                THEN g[CHOOSE i \in 1..Len(g) : g[i].id = id]
                ELSE NoDoc

\* group_data[id] = doc : in place when the key exists, appended otherwise
PutDoc(g, id, doc) ==
    IF HasDoc(g, id)
    THEN [i \in 1..Len(g) |-> IF g[i].id = id THEN doc ELSE g[i]]
    ELSE Append(g, doc)

\* del group_data[id]
DelDoc(g, id) == SelectSeq(g, LAMBDA d : d.id # id)

\* the documents of a group as a set (what find({}) returns, order aside)
DocSet(g) == {g[i] : i \in 1..Len(g)}

\* ------------------------------------------------------------ list helpers
RECURSIVE RemoveFirst(_, _)
RemoveFirst(s, x) ==
    IF s = <<>> THEN <<>>
    ELSE IF Head(s) = x THEN Tail(s)
    ELSE <<Head(s)>> \o RemoveFirst(Tail(s), x)

InSeq(s, x) == \E i \in 1..Len(s) : s[i] = x

\* ----------------------------------------------------------------- indexes
\* self.indexes[field] is {value: [ids]}; a value with no list is the empty
\* list here (the code deletes a list as soon as it is empty).
\* self.unique_indexes[field] is {value: id}; 0 is "value not in the map".
NoIndex == [def |-> FALSE, map |-> [v \in Vals |-> <<>>]]
NoUnique == [def |-> FALSE, map |-> [v \in Vals |-> 0]]
NoIndexes == [f \in Fields |-> NoIndex]
NoUniques == [f \in Fields |-> NoUnique]

\* _update_index, step 1: the unique pre-check; TRUE when it raises ValueError
UniqueViolation(ux, old_doc, new_doc) ==
    /\ new_doc.id # 0
    /\ \E f \in Fields :
          /\ ux[f].def
          /\ Get(new_doc, f) # Null
          /\ Get(new_doc, f) # Get(old_doc, f)
          /\ ux[f].map[Get(new_doc, f)] # 0

\* _update_index, step 2: one standard index
StdIndexStep(m, doc_id, old_doc, new_doc, f) ==
    LET old_val == Get(old_doc, f)
        new_val == Get(new_doc, f)
        m1 == IF old_val # Null /\ m[old_val] # <<>> /\ InSeq(m[old_val], doc_id)
              THEN [m EXCEPT ![old_val] = RemoveFirst(@, doc_id)]
              ELSE m
    IN  IF new_val # Null THEN [m1 EXCEPT ![new_val] = Append(@, doc_id)] ELSE m1

\* _update_index, step 3: one unique index
UniqueIndexStep(m, doc_id, old_doc, new_doc, f) ==
    LET old_val == Get(old_doc, f)
        new_val == Get(new_doc, f)
        m1 == IF old_val # Null /\ m[old_val] # 0 /\ m[old_val] = doc_id
              THEN [m EXCEPT ![old_val] = 0]
              ELSE m
    IN  IF new_val # Null THEN [m1 EXCEPT ![new_val] = doc_id] ELSE m1

\* _update_index(doc_id, old_doc, new_doc): [ok, ix, ux]; ok = FALSE is the
\* ValueError of the pre-check, raised before anything is changed
UpdateIndex(ix, ux, doc_id, old_doc, new_doc) ==
    IF UniqueViolation(ux, old_doc, new_doc)
    THEN [ok |-> FALSE, ix |-> ix, ux |-> ux]
    ELSE [ok |-> TRUE,
          ix |-> [f \in Fields |->
                    IF ix[f].def
                    THEN [ix[f] EXCEPT !.map =
                            StdIndexStep(@, doc_id, old_doc, new_doc, f)]
                    ELSE ix[f]],
          ux |-> [f \in Fields |->
                    IF ux[f].def
                    THEN [ux[f] EXCEPT !.map =
                            UniqueIndexStep(@, doc_id, old_doc, new_doc, f)]
                    ELSE ux[f]]]

\* ------------------------------------------------------- create_index
\* the populate loop of create_index(unique=True) over the documents in dict
\* order: [ok, map]; ok = FALSE is the "Duplicate value" ValueError, raised
\* with the map filled up to the offending document
RECURSIVE PopulateUnique(_, _, _)
PopulateUnique(docs, f, m) ==
    IF docs = <<>> THEN [ok |-> TRUE, map |-> m]
    ELSE LET val == Get(Head(docs), f)
         IN  IF val = Null THEN PopulateUnique(Tail(docs), f, m)
             ELSE IF m[val] # 0 THEN [ok |-> FALSE, map |-> m]
             ELSE PopulateUnique(Tail(docs), f, [m EXCEPT ![val] = Head(docs).id])

\* the populate loop of create_index(unique=False)
RECURSIVE PopulateStd(_, _, _)
PopulateStd(docs, f, m) ==
    IF docs = <<>> THEN m
    ELSE LET val == Get(Head(docs), f)
         IN  IF val = Null THEN PopulateStd(Tail(docs), f, m)
             ELSE PopulateStd(Tail(docs), f, [m EXCEPT ![val] = Append(@, Head(docs).id)])

\* storage.data["_indexes"][name] is a dict field -> unique flag, kept here
\* as the sequence of its items in insertion order
DefFields(defs) == {defs[i].f : i \in 1..Len(defs)}

SetDef(defs, f, unique) ==
    IF f \in DefFields(defs)
    THEN [i \in 1..Len(defs) |-> IF defs[i].f = f THEN [f |-> f, u |-> unique] ELSE defs[i]]
    ELSE Append(defs, [f |-> f, u |-> unique])

\* A memory image is [g, ix, ux, defs, dirty]: the group's documents, its
\* indexes and unique indexes, the persisted index definitions and
\* storage._dirty.
\* create_index(field, unique, persist): [ok, m]
CreateIndexMem(m, f, unique, persist) ==
    LET saved == IF persist
                 THEN [m EXCEPT !.defs = SetDef(@, f, unique), !.dirty = TRUE]
                 ELSE m
    IN  IF unique
        THEN IF m.ux[f].def THEN [ok |-> TRUE, m |-> m]
             ELSE LET r == PopulateUnique(m.g, f, NoUnique.map)
                  IN  IF r.ok
                      THEN [ok |-> TRUE,
                            m |-> [saved EXCEPT !.ux[f] = [def |-> TRUE, map |-> r.map]]]
                      ELSE [ok |-> FALSE,
                            m |-> [m EXCEPT !.ux[f] = [def |-> TRUE, map |-> r.map]]]
        ELSE IF m.ix[f].def THEN [ok |-> TRUE, m |-> m]
             ELSE [ok |-> TRUE,
                   m |-> [saved EXCEPT !.ix[f] =
                            [def |-> TRUE, map |-> PopulateStd(m.g, f, NoIndex.map)]]]

\* _rebuild_indexes: clear both maps, then create_index(persist=False) for
\* every stored definition in order; a ValueError stops the loop
RECURSIVE RebuildFrom(_, _)
RebuildFrom(m, defs) ==
    IF defs = <<>> THEN [ok |-> TRUE, m |-> m]
    ELSE LET r == CreateIndexMem(m, Head(defs).f, Head(defs).u, FALSE)
         IN  IF r.ok THEN RebuildFrom(r.m, Tail(defs)) ELSE r

RebuildIndexes(m) ==
    RebuildFrom([m EXCEPT !.ix = NoIndexes, !.ux = NoUniques], m.defs)

\* ------------------------------------------------- memory operations
\* _insert_mem(data): [ok, m]
InsertMem(m, data) ==
    LET r == UpdateIndex(m.ix, m.ux, data.id, NoDoc, data)
    IN  IF r.ok
        THEN [ok |-> TRUE,
              m |-> [m EXCEPT !.ix = r.ix, !.ux = r.ux,
                              !.g = PutDoc(@, data.id, data), !.dirty = TRUE]]
        ELSE [ok |-> FALSE, m |-> m]

\* dict.update(update_data): the fields the update mentions are overwritten
Merge(doc, u) ==
    [doc EXCEPT !.k = IF u.k = Absent THEN @ ELSE u.k,
                !.t = IF u.t = Absent THEN @ ELSE u.t]

\* a whole document used as update_data (the buffered mode's new_doc): its
\* keys are the fields it has
AsUpdate(doc) ==
    [k |-> IF doc.k = Null THEN Absent ELSE doc.k,
     t |-> IF doc.t = Null THEN Absent ELSE doc.t]

\* _update_mem(doc_id, update_data, old_doc): [ok, m]
UpdateMem(m, doc_id, update_data, old_doc) ==
    LET r == UpdateIndex(m.ix, m.ux, doc_id, old_doc, Merge(old_doc, update_data))
    IN  IF r.ok
        THEN [ok |-> TRUE,
              m |-> [m EXCEPT !.ix = r.ix, !.ux = r.ux,
                              !.g = PutDoc(@, doc_id, Merge(DocOf(@, doc_id), update_data)),
                              !.dirty = TRUE]]
        ELSE [ok |-> FALSE, m |-> m]

\* _restore_mem(doc_id, old_doc): [ok, m]
RestoreMem(m, doc_id, old_doc) ==
    LET r == UpdateIndex(m.ix, m.ux, doc_id, DocOf(m.g, doc_id), old_doc)
    IN  IF r.ok
        THEN [ok |-> TRUE,
              m |-> [m EXCEPT !.ix = r.ix, !.ux = r.ux,
                              !.g = PutDoc(@, doc_id, old_doc), !.dirty = TRUE]]
        ELSE [ok |-> FALSE, m |-> m]

\* _delete_mem(doc_id, doc): the index entries removed are those of the
\* document passed in, the dict entry removed is the one stored under doc_id
DeleteMem(m, doc_id, doc) ==
    LET r == UpdateIndex(m.ix, m.ux, doc_id, doc, NoDoc)
    IN  [m EXCEPT !.ix = r.ix, !.ux = r.ux, !.g = DelDoc(@, doc_id), !.dirty = TRUE]

\* ------------------------------------------------------------------ find
\* A query is [id, k, t]; Absent is a key the query does not have, Null is
\* the value None.  Its keys are taken in the order _id, k, t.
NoQuery == [id |-> Absent, k |-> Absent, t |-> Absent]

QGet(q, f) == IF f = "k" THEN q.k ELSE q.t

\* the equality matcher of find: doc.get(k) != v for no key k of the query
Matches(doc, q) ==
    /\ q.id = Absent \/ doc.id = q.id
    /\ q.k = Absent \/ doc.k = q.k
    /\ q.t = Absent \/ doc.t = q.t

\* the first key of the query that names a unique index ("" when none)
UniqueKey(ux, q) ==
    IF q.k # Absent /\ ux["k"].def THEN "k"
    ELSE IF q.t # Absent /\ ux["t"].def THEN "t"
    ELSE ""

\* every way to list the members of a finite set (the iteration order of a
\* Python set of str is not fixed)
Orderings(S) ==
    {s \in [1..Cardinality(S) -> S] : \A i, j \in 1..Cardinality(S) : i # j => s[i] # s[j]}

\* find(query): the set of result lists the call can return
FindResults(m, q) ==
    IF q = NoQuery THEN {m.g}
    ELSE IF UniqueKey(m.ux, q) # ""
    THEN LET f == UniqueKey(m.ux, q)
             value == QGet(q, f)
             doc_id == IF value = Null THEN 0 ELSE m.ux[f].map[value]
         IN  IF doc_id # 0 /\ HasDoc(m.g, doc_id) /\ Matches(DocOf(m.g, doc_id), q)
             THEN {<<DocOf(m.g, doc_id)>>}
             ELSE {<<>>}
    ELSE LET keys == {f \in Fields : QGet(q, f) # Absent /\ m.ix[f].def}
             miss == \E f \in keys : QGet(q, f) = Null \/ m.ix[f].map[QGet(q, f)] = <<>>
             candidates == {id \in Ids : \A f \in keys : InSeq(m.ix[f].map[QGet(q, f)], id)}
         IN  IF keys = {} THEN {SelectSeq(m.g, LAMBDA d : Matches(d, q))}
             ELSE IF miss THEN {<<>>}
             ELSE Orderings({d \in DocSet(m.g) : d.id \in candidates /\ Matches(d, q)})

\* ------------------------------------------------------------ WAL records
\* A buffered entry is [seq, txn, type, op, id, d, live].  "d" is a reference
\* to a dict: live says that it is the very object stored in the group under
\* id, so that an in-place update of the document changes the entry as well
\* (the entry is serialised only by write_batch at commit).
Entry(seq, txn, type, op, id, d, live) ==
    [seq |-> seq, txn |-> txn, type |-> type, op |-> op, id |-> id, d |-> d, live |-> live]

\* A frame of the WAL file: the entry as packed, encrypted under key.  A
\* frame of type "TORN" is a partly written frame (a short read or a CRC
\* mismatch for replay).
Frame(e, key) ==
    [seq |-> e.seq, txn |-> e.txn, type |-> e.type, op |-> e.op, id |-> e.id,
     d |-> e.d, key |-> key]

TornFrame == [seq |-> 0, txn |-> 0, type |-> "TORN", op |-> "", id |-> 0, d |-> NoDoc, key |-> 0]

Frames(entries, key) == [i \in 1..Len(entries) |-> Frame(entries[i], key)]

\* the mutation of a document in place reaches the live entries that hold it
Retarget(bufs, id, doc) ==
    [x \in TxnIds |-> [i \in 1..Len(bufs[x]) |->
        IF bufs[x][i].live /\ bufs[x][i].id = id
        THEN [bufs[x][i] EXCEPT !.d = doc] ELSE bufs[x][i]]]

\* the group's entry for id is dropped or bound to another dict
Detach(bufs, id) ==
    [x \in TxnIds |-> [i \in 1..Len(bufs[x]) |->
        IF bufs[x][i].id = id THEN [bufs[x][i] EXCEPT !.live = FALSE] ELSE bufs[x][i]]]

\* ---------------------------------------------------------------- storage
\* A storage state is [seq, bufs, wal, hdr]: _last_sequence, _txn_buffers
\* (txn id -> entries, <<>> when the id is not a key), the frames of the WAL
\* file and the salt in its header (0: the file is missing or empty).

\* ensure_header, then the frames appended by one call of _write_entry or
\* of write_batch, which S.calls counts
WriteFrames(S, key, entries) ==
    [S EXCEPT !.hdr = IF @ = 0 THEN key ELSE @,
              !.wal = @ \o Frames(entries, key),
              !.calls = @ + 1]

\* begin_txn(), txn being the uuid that wal.begin_transaction() returns
BeginTxn(S, txn) ==
    [S EXCEPT !.seq = @ + 1,
              !.bufs[txn] = <<Entry(S.seq + 1, txn, "BEGIN", "", 0, NoDoc, FALSE)>>]

\* commit_txn(txn_id)
CommitTxn(S, key, txn) ==
    LET e == Entry(S.seq + 1, txn, "COMMIT", "", 0, NoDoc, FALSE)
    IN  IF S.bufs[txn] # <<>>
        THEN [WriteFrames(S, key, Append(S.bufs[txn], e)) EXCEPT
                !.seq = @ + 1, !.bufs[txn] = <<>>]
        ELSE [WriteFrames(S, key, <<e>>) EXCEPT !.seq = @ + 1]

\* rollback_txn as it would be if the buffer were written out with the marker
RollbackTxnFlushing(S, key, txn) ==
    LET e == Entry(S.seq + 1, txn, "ROLLBACK", "", 0, NoDoc, FALSE)
    IN  [WriteFrames(S, key, Append(S.bufs[txn], e)) EXCEPT !.seq = @ + 1, !.bufs[txn] = <<>>]

\* rollback_txn(txn_id)
RollbackTxn(S, key, txn) ==
    LET e == Entry(S.seq + 1, txn, "ROLLBACK", "", 0, NoDoc, FALSE)
    IN  [WriteFrames(S, key, <<e>>) EXCEPT !.seq = @ + 1, !.bufs[txn] = <<>>]

\* append_log(op, group, doc_id, data, txn_id)
AppendLog(S, key, op, id, d, txn, live) ==
    LET e == Entry(S.seq + 1, txn, "DATA", op, id, d, live)
    IN  IF S.bufs[txn] # <<>>
        THEN [S EXCEPT !.seq = @ + 1, !.bufs[txn] = Append(@, e)]
        ELSE [WriteFrames(S, key, <<e>>) EXCEPT !.seq = @ + 1]

\* ----------------------------------------------------------------- replay
\* replay as it would be without the isolation buffer: every DATA record
\* newer than the snapshot is applied as it is read
RECURSIVE ReplayEager(_, _, _, _, _)
ReplayEager(frames, last_sequence, key, buf, out) ==
    IF frames = <<>> THEN out
    ELSE LET e == Head(frames)
             rest == Tail(frames)
         IN  IF e.type = "TORN" \/ e.key # key THEN out
             ELSE IF e.seq <= last_sequence
             THEN ReplayEager(rest, last_sequence, key, buf, out)
             ELSE IF e.type = "DATA"
             THEN ReplayEager(rest, last_sequence, key, buf, Append(out, e))
             ELSE ReplayEager(rest, last_sequence, key, buf, out)

\* replay as it would be if it went on with the next frame after a frame
\* it cannot read
RECURSIVE ReplaySkipping(_, _, _, _, _)
ReplaySkipping(frames, last_sequence, key, buf, out) ==
    IF frames = <<>> THEN out
    ELSE LET e == Head(frames)
             rest == Tail(frames)
         IN  IF e.type = "TORN" \/ e.key # key \/ e.seq <= last_sequence
             THEN ReplaySkipping(rest, last_sequence, key, buf, out)
             ELSE IF e.txn = 0
             THEN ReplaySkipping(rest, last_sequence, key, buf, Append(out, e))
             ELSE IF e.type = "DATA"
             THEN ReplaySkipping(rest, last_sequence, key, [buf EXCEPT ![e.txn] = Append(@, e)], out)
             ELSE IF e.type = "COMMIT"
             THEN ReplaySkipping(rest, last_sequence, key, [buf EXCEPT ![e.txn] = <<>>],
                                 out \o buf[e.txn])
             ELSE ReplaySkipping(rest, last_sequence, key, [buf EXCEPT ![e.txn] = <<>>], out)

\* replay as it would be if ROLLBACK handed the buffered records to the
\* callback as COMMIT does
RECURSIVE ReplayRollbackApplies(_, _, _, _, _)
ReplayRollbackApplies(frames, last_sequence, key, buf, out) ==
    IF frames = <<>> THEN out
    ELSE LET e == Head(frames)
             rest == Tail(frames)
         IN  IF e.type = "TORN" \/ e.key # key THEN out
             ELSE IF e.seq <= last_sequence
             THEN ReplayRollbackApplies(rest, last_sequence, key, buf, out)
             ELSE IF e.txn = 0
             THEN ReplayRollbackApplies(rest, last_sequence, key, buf, Append(out, e))
             ELSE IF e.type = "BEGIN"
             THEN ReplayRollbackApplies(rest, last_sequence, key, [buf EXCEPT ![e.txn] = <<>>], out)
             ELSE IF e.type = "DATA"
             THEN ReplayRollbackApplies(rest, last_sequence, key,
                                        [buf EXCEPT ![e.txn] = Append(@, e)], out)
             ELSE ReplayRollbackApplies(rest, last_sequence, key, [buf EXCEPT ![e.txn] = <<>>],
                                        out \o buf[e.txn])

\* HVPWAL.replay(last_sequence, apply_callback): the entries handed to the
\* callback, in order.  buf is the isolation buffer txn id -> entries; a
\* txn id that is not a key and one whose list is empty apply the same
\* (nothing) at COMMIT, so <<>> stands for both.  An entry without a txn id
\* (txn 0) goes to the callback as it is read.
RECURSIVE ReplayFrames(_, _, _, _, _)
ReplayFrames(frames, last_sequence, key, buf, out) ==
    IF frames = <<>> THEN out
    ELSE LET e == Head(frames)
             rest == Tail(frames)
         IN  IF e.type = "TORN" \/ e.key # key THEN out
             ELSE IF e.seq <= last_sequence
             THEN ReplayFrames(rest, last_sequence, key, buf, out)
             ELSE IF e.txn = 0
             THEN ReplayFrames(rest, last_sequence, key, buf, Append(out, e))
             ELSE IF e.type = "BEGIN"
             THEN ReplayFrames(rest, last_sequence, key, [buf EXCEPT ![e.txn] = <<>>], out)
             ELSE IF e.type = "DATA"
             THEN ReplayFrames(rest, last_sequence, key, [buf EXCEPT ![e.txn] = Append(@, e)], out)
             ELSE IF e.type = "COMMIT"
             THEN ReplayFrames(rest, last_sequence, key, [buf EXCEPT ![e.txn] = <<>>],
                               out \o buf[e.txn])
             ELSE ReplayFrames(rest, last_sequence, key, [buf EXCEPT ![e.txn] = <<>>], out)

Replay(frames, last_sequence, key) ==
    ReplayFrames(frames, last_sequence, key, [x \in TxnIds |-> <<>>], <<>>)

\* _apply_entry(entry) on [g, seq]
ApplyEntry(st, e) ==
    LET seq == IF e.seq > st.seq THEN e.seq ELSE st.seq
    IN  IF e.op = "insert" \/ e.op = "update"
        THEN [g |-> IF e.id # 0 /\ e.d.id # 0 THEN PutDoc(st.g, e.id, e.d) ELSE st.g,
              seq |-> seq]
        ELSE IF e.op = "delete"
        THEN [g |-> IF e.id # 0 /\ HasDoc(st.g, e.id) THEN DelDoc(st.g, e.id) ELSE st.g,
              seq |-> seq]
        ELSE [g |-> st.g, seq |-> seq]

RECURSIVE ApplyAll(_, _)
ApplyAll(st, entries) ==
    IF entries = <<>> THEN st ELSE ApplyAll(ApplyEntry(st, Head(entries)), Tail(entries))

\* ------------------------------------------------------------ load / save
\* The header of a snapshot file as save() writes it for a salt
HEADER == "HVPDB"
VERSION == 2
Password == 0        \* the password the database is used with
WrongPassword == 1   \* any other password
DefaultKdf == 0      \* the KDF parameters of HVPSecurity
\* len(msgpack.packb(kdf_params)): parameter sets of one packed length
KdfLen(kdf) == 1

Header(salt) ==
    [magic |-> HEADER, version |-> VERSION, salt |-> salt,
     kdf_len |-> KdfLen(DefaultKdf), kdf |-> DefaultKdf]

\* the version of a WAL file header
WAL_VERSION == 2

\* HVPWAL.replay on a file whose header carries a version: with another
\* version than WAL_VERSION it warns and returns 0, and reads no frame
ReadableFrames(version, frames) == IF version # WAL_VERSION THEN <<>> ELSE frames

\* what AES-GCM authenticates when no associated data is given
NoAad == [magic |-> "", version |-> 0, salt |-> 0, kdf_len |-> 0, kdf |-> 0]

\* HVPSecurity._derive_key: the key is a function of password, salt and
\* parameters, different for different arguments.  The keys of Password
\* under the default parameters carry the numbers of their salts.
DeriveKey(pw, salt, kdf) == salt + (MaxSalt + 1) * (pw + 2 * kdf)

\* The snapshot file: [exists, g, defs, seq, magic, version, salt, kdf_len,
\* kdf, aad, key]: the decrypted body's groups, _indexes and seq, the fields
\* of the header, and the associated data and the key the body was
\* encrypted with.
NoSnapshot ==
    [exists |-> FALSE, g |-> <<>>, defs |-> <<>>, seq |-> 0, magic |-> "", version |-> 0,
     salt |-> 0, kdf_len |-> 0, kdf |-> 0, aad |-> NoAad, key |-> 0]

\* the snapshot files that differ from snap in one field of the header
Tampered(snap) ==
    {[snap EXCEPT !.magic = "XVPDB"]}
    \cup {[snap EXCEPT !.version = v] : v \in {1, 3}}
    \cup {[snap EXCEPT !.salt = x] : x \in Salts \ {snap.salt}}
    \cup {[snap EXCEPT !.kdf_len = @ + 1]}
    \cup {[snap EXCEPT !.kdf = 1 - @]}

\* the header found in the file
HeaderOf(snap) ==
    [magic |-> snap.magic, version |-> snap.version, salt |-> snap.salt,
     kdf_len |-> snap.kdf_len, kdf |-> snap.kdf]

\* decryption as it would be if the tag did not cover the associated data
DecryptsAnyAad(key, aad, snap) == key = snap.key

\* AESGCM.decrypt: the tag verifies for the key and the associated data of
\* the encryption, and for no other
Decrypts(key, aad, snap) == key = snap.key /\ aad = snap.aad

\* The try block of load(): the header is read, the security context made
\* from the file's salt and parameters unless the storage has one, and the
\* body decrypted; FALSE: an exception, which load() raises as ValueError.
ReadSnapshot(pw, key, snap) ==
    CASE snap.magic # HEADER -> FALSE
      [] snap.magic = HEADER /\ snap.version = 1 ->
            Decrypts(IF key = 0 THEN DeriveKey(pw, snap.salt, DefaultKdf) ELSE key, NoAad, snap)
      [] snap.magic = HEADER /\ snap.version = 2 ->
            /\ snap.kdf_len = KdfLen(snap.kdf)
            /\ Decrypts(IF key = 0 THEN DeriveKey(pw, snap.salt, snap.kdf) ELSE key,
                        HeaderOf(snap), snap)
      [] OTHER -> FALSE

\* os.urandom(16): a salt that no file holds
UsedSalts(frames, hdr) == {hdr} \cup {frames[i].key : i \in 1..Len(frames)}

HasFreshSalt(frames, hdr) == \E x \in Salts : x \notin UsedSalts(frames, hdr)

FreshSalt(frames, hdr) ==
    CHOOSE x \in Salts : /\ x \notin UsedSalts(frames, hdr)
                         /\ \A y \in Salts : y \notin UsedSalts(frames, hdr) => x <= y

\* HVPStorage.load() on a storage whose data, _dirty, _last_sequence,
\* security and password are P = [g, defs, dirty, seq, key, pw] (key 0:
\* security is None).  With no snapshot file the method returns inside the
\* reader lock, before _replay_wal().  ok = FALSE: load() raised, and data
\* and _last_sequence are as they were.
Load(P, snap, frames, hdr) ==
    IF ~snap.exists
    THEN [ok |-> TRUE, g |-> <<>>, defs |-> <<>>, dirty |-> P.dirty, seq |-> P.seq,
          key |-> IF P.key = 0 THEN DeriveKey(P.pw, FreshSalt(frames, hdr), DefaultKdf)
                  ELSE P.key]
    ELSE IF ~ReadSnapshot(P.pw, P.key, snap)
    THEN [ok |-> FALSE, g |-> P.g, defs |-> P.defs, dirty |-> P.dirty, seq |-> P.seq,
          key |-> P.key]
    ELSE LET key == IF P.key = 0 THEN DeriveKey(P.pw, snap.salt, snap.kdf) ELSE P.key
             applied == Replay(frames, snap.seq, key)
             st == ApplyAll([g |-> snap.g, seq |-> snap.seq], applied)
         IN  [ok |-> TRUE, g |-> st.g, defs |-> snap.defs,
              dirty |-> P.dirty \/ Len(applied) > 0,
              seq |-> st.seq, key |-> key]

\* save as it would be if the body written left out the group's first document
SnapshotShort(m, seq, key) ==
    [exists |-> TRUE, g |-> IF m.g = <<>> THEN <<>> ELSE Tail(m.g), defs |-> m.defs,
     seq |-> seq, magic |-> HEADER, version |-> VERSION, salt |-> key,
     kdf_len |-> KdfLen(DefaultKdf), kdf |-> DefaultKdf, aad |-> Header(key), key |-> key]

\* save as it would be if the snapshot did not carry the sequence number
SnapshotNoSeq(m, seq, key) ==
    [exists |-> TRUE, g |-> m.g, defs |-> m.defs, seq |-> 0, magic |-> HEADER,
     version |-> VERSION, salt |-> key, kdf_len |-> KdfLen(DefaultKdf), kdf |-> DefaultKdf,
     aad |-> Header(key), key |-> key]

\* HVPStorage.save(): the snapshot that replaces the file, written by a
\* storage whose security context has salt and key number key
Snapshot(m, seq, key) ==
    [exists |-> TRUE, g |-> m.g, defs |-> m.defs, seq |-> seq, magic |-> HEADER,
     version |-> VERSION, salt |-> key, kdf_len |-> KdfLen(DefaultKdf), kdf |-> DefaultKdf,
     aad |-> Header(key), key |-> key]

\* HVPWAL.truncate as it would be if it left the records in the file
TruncateKeeping(S, key) == [S EXCEPT !.hdr = key]

\* HVPWAL.truncate(): the file is emptied and the header written again
Truncate(S, key) == [S EXCEPT !.wal = <<>>, !.hdr = key]

\* save as it would be if the checkpoint took a sequence number of its own
SaveOpCounting(m, S, key) ==
    [snap |-> Snapshot(m, S.seq + 1, key),
     S |-> [Truncate(S, key) EXCEPT !.seq = @ + 1],
     m |-> [m EXCEPT !.dirty = FALSE]]

\* HVPStorage.save(): [snap, S, m], the snapshot that replaces the file, the
\* storage with the WAL truncated, and the memory image with _dirty cleared
SaveOp(m, S, key) ==
    [snap |-> Snapshot(m, S.seq, key),
     S |-> Truncate(S, key),
     m |-> [m EXCEPT !.dirty = FALSE]]

\* HVPDB.__init__ in a new process: load, the root user (a database without
\* a snapshot has none: it is created and the storage marked dirty), then an
\* HVPGroup, and with it _rebuild_indexes, for the group.
\* [ok, m, seq, key]; ok = FALSE: the constructor raised.
OpenAs(pw, snap, frames, hdr) ==
    LET L == Load([g |-> <<>>, defs |-> <<>>, dirty |-> FALSE, seq |-> 0, key |-> 0,
                   pw |-> pw], snap, frames, hdr)
        R == RebuildIndexes([g |-> L.g, ix |-> NoIndexes, ux |-> NoUniques,
                             defs |-> L.defs, dirty |-> L.dirty \/ ~snap.exists])
    IN  [ok |-> L.ok /\ R.ok, m |-> R.m, seq |-> L.seq, key |-> L.key]

\* the constructor called with the database's password
Open(snap, frames, hdr) == OpenAs(Password, snap, frames, hdr)

\* ------------------------------------------------------ group operations
\* Each takes the memory image m, the storage state S and the key, and
\* gives [res, m, S].

\* HVPGroup.insert(data), data carrying its _id; ctx is db.current_txn and
\* txn the id begin_txn() would return
InsertOp(m, S, key, ctx, txn, data) ==
    LET implicit == ctx = 0
        tid == IF implicit THEN txn ELSE ctx
        S1 == IF implicit THEN BeginTxn(S, txn) ELSE S
        r == InsertMem(m, data)
    IN  IF r.ok
        THEN LET S2 == AppendLog([S1 EXCEPT !.bufs = Detach(@, data.id)], key,
                                 "insert", data.id, data, tid, TRUE)
             IN  [res |-> "ok", m |-> r.m,
                  S |-> IF implicit THEN CommitTxn(S2, key, tid) ELSE S2]
        ELSE LET stored == HasDoc(m.g, data.id)
                 m2 == IF stored THEN DeleteMem(m, data.id, data) ELSE m
                 S2 == IF stored THEN [S1 EXCEPT !.bufs = Detach(@, data.id)] ELSE S1
             IN  [res |-> "dup", m |-> m2,
                  S |-> IF implicit THEN RollbackTxn(S2, key, tid) ELSE S2]

\* HVPGroup.insert(data) outside a scope when write_batch raises OSError in
\* commit_txn: either before a frame is written (written = FALSE: the log
\* cannot be opened) or in os.fsync after the whole batch went to the file
\* (written = TRUE).  commit_txn leaves the buffer; the except block takes
\* the document out of memory and calls rollback_txn, whose own write of
\* ROLLBACK succeeds (marked = TRUE) or raises as well.
InsertOpWriteFails(m, S, key, txn, data, written, marked) ==
    LET r == InsertMem(m, data)
        S2 == AppendLog([BeginTxn(S, txn) EXCEPT !.bufs = Detach(@, data.id)], key,
                        "insert", data.id, data, txn, TRUE)
        e == Entry(S2.seq + 1, txn, "COMMIT", "", 0, NoDoc, FALSE)
        S3 == [(IF written THEN WriteFrames(S2, key, Append(S2.bufs[txn], e)) ELSE S2)
                 EXCEPT !.seq = @ + 1, !.bufs[txn] = Append(@, e)]
        S4 == [S3 EXCEPT !.bufs = Detach(@, data.id)]
    IN  [res |-> "error",
         m |-> DeleteMem(r.m, data.id, data),
         S |-> IF marked THEN RollbackTxn(S4, key, txn)
               ELSE [S4 EXCEPT !.seq = @ + 1, !.bufs[txn] = <<>>]]

\* the try block of HVPGroup.update over the documents found; X is
\* [m, S, log], log being modified_log
RECURSIVE UpdateLoop(_, _, _, _, _)
UpdateLoop(X, key, txn, docs, u) ==
    IF docs = <<>> THEN [ok |-> TRUE, X |-> X]
    ELSE LET id == Head(docs).id
             old_doc == DocOf(X.m.g, id)
             r == UpdateMem(X.m, id, u, old_doc)
             updated_doc == DocOf(r.m.g, id)
         IN  IF ~r.ok THEN [ok |-> FALSE, X |-> X]
             ELSE UpdateLoop(
                    [m |-> r.m,
                     S |-> AppendLog([X.S EXCEPT !.bufs = Retarget(@, id, updated_doc)],
                                     key, "update", id, updated_doc, txn, TRUE),
                     log |-> Append(X.log, old_doc)],
                    key, txn, Tail(docs), u)

\* the except block as it would be if it restored no document
RestoreLoopNothing(X, n) == [ok |-> TRUE, X |-> X]

\* the except block of HVPGroup.update: _restore_mem over reversed(modified_log)
RECURSIVE RestoreLoop(_, _)
RestoreLoop(X, n) ==
    IF n = 0 THEN [ok |-> TRUE, X |-> X]
    ELSE LET old_doc == X.log[n]
             r == RestoreMem(X.m, old_doc.id, old_doc)
         IN  IF ~r.ok THEN [ok |-> FALSE, X |-> X]
             ELSE RestoreLoop([X EXCEPT !.m = r.m, !.S.bufs = Detach(@, old_doc.id)], n - 1)

\* HVPGroup.update(query, update_data), docs being what find(query) returned
UpdateOp(m, S, key, txn, docs, u) ==
    LET L == UpdateLoop([m |-> m, S |-> BeginTxn(S, txn), log |-> <<>>], key, txn, docs, u)
    IN  IF L.ok
        THEN [res |-> "ok", m |-> L.X.m, S |-> CommitTxn(L.X.S, key, txn)]
        ELSE LET R == RestoreLoop(L.X, Len(L.X.log))
             IN  IF R.ok
                 THEN [res |-> "dup", m |-> R.X.m, S |-> RollbackTxn(R.X.S, key, txn)]
                 ELSE [res |-> "dup", m |-> R.X.m, S |-> R.X.S]

\* the try block of HVPGroup.delete over the documents found
RECURSIVE DeleteLoop(_, _, _, _)
DeleteLoop(X, key, txn, docs) ==
    IF docs = <<>> THEN X
    ELSE LET doc == Head(docs)
         IN  DeleteLoop(
                [m |-> DeleteMem(X.m, doc.id, doc),
                 S |-> AppendLog([X.S EXCEPT !.bufs = Detach(@, doc.id)],
                                 key, "delete", doc.id, doc, txn, FALSE)],
                key, txn, Tail(docs))

\* HVPGroup.delete(query), docs being what find(query) returned
DeleteOp(m, S, key, txn, docs) ==
    LET X == DeleteLoop([m |-> m, S |-> BeginTxn(S, txn)], key, txn, docs)
    IN  [res |-> "ok", m |-> X.m, S |-> CommitTxn(X.S, key, txn)]

\* ------------------------------------------------------------ transactions
\* The HVPTransaction object: mode "none" (there is none), "scope" (entered
\* with "with db.begin()") or "plain" (db.begin() used without entering it);
\* _txn_id (0: None) and ops, the add_op list of [op, id, d].  entry and ins
\* are history: the group's documents when the scope was entered and the ids
\* inserted through group.insert inside it.
NoTx == [mode |-> "none", txn_id |-> 0, ops |-> <<>>, entry |-> {}, ins |-> {}]

\* wal.append / log_begin / log_commit called directly: one frame, one seq
DirectWrite(S, key, txn, type, op, id, d) ==
    [WriteFrames(S, key, <<Entry(S.seq + 1, txn, type, op, id, d, FALSE)>>) EXCEPT !.seq = @ + 1]

RECURSIVE DirectOps(_, _, _, _)
DirectOps(S, key, txn, ops) ==
    IF ops = <<>> THEN S
    ELSE DirectOps(DirectWrite(S, key, txn, "DATA", Head(ops).op, Head(ops).id, Head(ops).d),
                   key, txn, Tail(ops))

\* append_batch_log(operations) with no txn_id: begin_txn() (whose buffer is
\* never flushed nor dropped), then BEGIN, every DATA and COMMIT written
\* one by one
AppendBatchLog(S, key, txn, ops) ==
    DirectWrite(DirectOps(DirectWrite(BeginTxn(S, txn), key, txn, "BEGIN", "", 0, NoDoc),
                          key, txn, ops),
                key, txn, "COMMIT", "", 0, NoDoc)

\* HVPTransaction.commit, step 1 with a txn id: append_log for every op
RECURSIVE LogOps(_, _, _, _)
LogOps(S, key, txn, ops) ==
    IF ops = <<>> THEN S
    ELSE LogOps(AppendLog(S, key, Head(ops).op, Head(ops).id, Head(ops).d, txn, FALSE),
                key, txn, Tail(ops))

\* HVPTransaction.commit, step 3: the ops applied to memory, a ValueError
\* being caught and printed
RECURSIVE ApplyOps(_, _)
ApplyOps(m, ops) ==
    IF ops = <<>> THEN m
    ELSE LET o == Head(ops)
             current_doc == DocOf(m.g, o.id)
             m1 == IF o.op = "insert"
                   THEN InsertMem(m, o.d).m
                   ELSE IF current_doc.id = 0 THEN m
                   ELSE IF o.op = "update"
                   THEN UpdateMem(m, o.id, AsUpdate(o.d), current_doc).m
                   ELSE DeleteMem(m, o.id, current_doc)
         IN  ApplyOps(m1, Tail(ops))

\* HVPTransaction.commit(): [m, S]
TxCommitOp(m, S, key, t, txn) ==
    LET S1 == IF t.ops = <<>> THEN S
              ELSE IF t.txn_id # 0 THEN LogOps(S, key, t.txn_id, t.ops)
              ELSE AppendBatchLog(S, key, txn, t.ops)
        S2 == IF t.txn_id # 0 THEN CommitTxn(S1, key, t.txn_id) ELSE S1
    IN  [m |-> ApplyOps(m, t.ops), S |-> S2]

\* ------------------------------------------------------- files of save()
\* What save() puts in a file, as far as the lock protocol goes: the process
\* that wrote it, which of its save() calls, and whether all of it is there
\* (header, nonce and ciphertext, flushed).  by = 0 at the snapshot path is
\* the snapshot that was there at the start.
FileOf(by, n, whole) == [by |-> by, gen |-> n, whole |-> whole]

\* no file at a path
NoFile == [by |-> 0, gen |-> 0, whole |-> FALSE]

\* ------------------------------------------------------------------ state
VARIABLES
    up,              \* an HVPDB object is open in the process
    data_groups,     \* storage.data["groups"]["g"]
    data_indexes,    \* storage.data["_indexes"]["g"]
    indexes,         \* HVPGroup.indexes
    unique_indexes,  \* HVPGroup.unique_indexes
    dirty,           \* storage._dirty
    last_sequence,   \* storage._last_sequence
    txn_buffers,     \* storage._txn_buffers
    security,        \* the salt of storage.security
    txn_ctx,         \* db._txn_ctx (0: None)
    tx,              \* the HVPTransaction object in use
    snapshot,        \* the snapshot file
    wal,             \* the frames of the WAL file
    wal_header,      \* the salt of the WAL file header (0: empty file)
    last,            \* history: the last operation, its outcome, the frames
                     \* it appended to the WAL and the ids it is about
    steps,           \* history: the operations done so far
    \* the processes that run save() and load() on one database side by side
    pc,              \* where each process is in save() or load()
    held,            \* the locks each process holds: "reader" (LOCK_SH on
                     \* .lock), "swap" (LOCK_EX on .lock), "writer" (LOCK_EX
                     \* on .writelock)
    wal_owner,       \* the process whose open WAL handle holds LOCK_EX (0: none)
    snap_file,       \* the file at the snapshot path: [by, gen, whole]
    tmp_file,        \* the file at the .tmp path: [by, gen, whole]
    gen,             \* how many save() calls each process has begun
    ret,             \* history: how the last call of each process ended
    \* a second process that runs load() beside the process that writes
    reader,          \* the snapshot its load() has read and what load() left
                     \* in its memory: [snap, g, done]
    committed        \* history: the documents of the writing process after
                     \* each of its committed transactions, the first entry
                     \* being the empty database

\* the state of the single process of Spec and its files
mvars == <<up, data_groups, data_indexes, indexes, unique_indexes, dirty, last_sequence,
           txn_buffers, security, txn_ctx, tx, snapshot, wal, wal_header, last, steps>>

\* the state of the processes of SpecSave and their files
fvars == <<pc, held, wal_owner, snap_file, tmp_file, gen, ret, reader, committed>>

vars == <<mvars, fvars>>

\* one more operation of the run
Tick == steps < MaxSteps /\ steps' = steps + 1 /\ UNCHANGED fvars

Mem == [g |-> data_groups, ix |-> indexes, ux |-> unique_indexes,
        defs |-> data_indexes, dirty |-> dirty]

Sto == [seq |-> last_sequence, bufs |-> txn_buffers, wal |-> wal, hdr |-> wal_header,
        calls |-> 0]

SetMem(m) ==
    /\ data_groups' = m.g
    /\ indexes' = m.ix
    /\ unique_indexes' = m.ux
    /\ data_indexes' = m.defs
    /\ dirty' = m.dirty

SetSto(S) ==
    /\ last_sequence' = S.seq
    /\ txn_buffers' = S.bufs
    /\ wal' = S.wal
    /\ wal_header' = S.hdr

NoBuffers == [x \in TxnIds |-> <<>>]

Did(op, res, wrote, ids) ==
    [op |-> op, res |-> res, wrote |-> wrote, ids |-> ids, calls |-> 0]

\* the frames S holds beyond those of the WAL file now
Wrote(S) == Len(S.wal) - Len(wal)

\* an operation that left the storage as S: the frames it wrote and the
\* calls of _write_entry and write_batch it wrote them with
DidWrite(op, res, S, ids) == [Did(op, res, Wrote(S), ids) EXCEPT !.calls = S.calls]

\* uuid4(): an id that nothing in the process or on disk holds
UsedTxns ==
    {x \in TxnIds : txn_buffers[x] # <<>>} \cup {wal[i].txn : i \in 1..Len(wal)}
    \cup {txn_ctx}

HasFreshTxn == \E x \in TxnIds : x \notin UsedTxns

FreshTxn == CHOOSE x \in TxnIds : x \notin UsedTxns /\ \A y \in TxnIds : y \notin UsedTxns => x <= y

UsedIds ==
    GroupIds(data_groups) \cup GroupIds(snapshot.g) \cup {wal[i].id : i \in 1..Len(wal)}
    \cup UNION {{txn_buffers[x][i].id : i \in 1..Len(txn_buffers[x])} : x \in TxnIds}
    \cup {tx.ops[i].id : i \in 1..Len(tx.ops)}

HasFreshId == \E x \in Ids : x \notin UsedIds

FreshId == CHOOSE x \in Ids : x \notin UsedIds /\ \A y \in Ids : y \notin UsedIds => x <= y

\* the model stops starting operations at these sizes
CanStart == up /\ last_sequence < MaxSeq /\ Len(wal) < MaxWal /\ HasFreshTxn

\* ------------------------------------------------------------------ inputs
\* a document to insert: without _id (0) or with the caller's _id 1
InsertInputs == [id : {0, 1}, k : {Null} \cup Vals, t : {Null} \cup Vals]

Queries ==
    {NoQuery, [NoQuery EXCEPT !.id = 1]}
    \cup {[NoQuery EXCEPT !.k = v] : v \in {Null} \cup Vals}
    \cup {[NoQuery EXCEPT !.t = v] : v \in Vals}

Updates == [k : {Absent} \cup Vals, t : {Absent} \cup Vals] \ {[k |-> Absent, t |-> Absent]}

IndexInputs == {<<"k", TRUE>>, <<"t", FALSE>>}

\* -------------------------------------------------------------------- Init
\* A new database: HVPDB(path, password) where no file exists, then
\* db.group("g").
Init ==
    /\ up = TRUE
    /\ data_groups = <<>>
    /\ data_indexes = <<>>
    /\ indexes = NoIndexes
    /\ unique_indexes = NoUniques
    /\ dirty = TRUE
    /\ last_sequence = 0
    /\ txn_buffers = NoBuffers
    /\ security = 1
    /\ txn_ctx = 0
    /\ tx = NoTx
    /\ snapshot = NoSnapshot
    /\ wal = <<>>
    /\ wal_header = 0
    /\ last = Did("open", "ok", 0, {})
    /\ steps = 0
    /\ pc = [p \in Procs |-> "idle"]
    /\ held = [p \in Procs |-> {}]
    /\ wal_owner = 0
    /\ snap_file = FileOf(0, 0, TRUE)
    /\ tmp_file = NoFile
    /\ gen = [p \in Procs |-> 0]
    /\ ret = [p \in Procs |-> "none"]
    /\ reader = [snap |-> NoSnapshot, g |-> <<>>, done |-> FALSE]
    /\ committed = <<{}>>

\* ----------------------------------------------------------------- actions
\* group.insert(data); a document given without _id gets a uuid
Insert ==
    /\ Tick
    /\ CanStart
    /\ \E d \in InsertInputs :
         /\ d.id = 0 => HasFreshId
         /\ \E data \in {IF d.id = 0 THEN [d EXCEPT !.id = FreshId] ELSE d} :
            \E R \in {InsertOp(Mem, Sto, security, txn_ctx, FreshTxn, data)} :
                /\ SetMem(R.m)
                /\ SetSto(R.S)
                /\ tx' = IF tx.mode = "scope" /\ R.res = "ok"
                         THEN [tx EXCEPT !.ins = @ \cup {data.id}] ELSE tx
                /\ last' = DidWrite("insert", R.res, R.S, {data.id})
    /\ UNCHANGED <<up, security, txn_ctx, snapshot>>

\* group.update(query, update_data) when find(query) is not empty; docs is
\* what find gives for one of the queries
Update ==
    /\ Tick
    /\ CanStart
    /\ \E docs \in UNION {FindResults(Mem, q) : q \in Queries} :
         \E u \in Updates :
            /\ docs # <<>>
            /\ \E R \in {UpdateOp(Mem, Sto, security, FreshTxn, docs, u)} :
                   /\ SetMem(R.m)
                   /\ SetSto(R.S)
                   /\ last' = DidWrite("update", R.res, R.S, {docs[i].id : i \in 1..Len(docs)})
    /\ UNCHANGED <<up, security, txn_ctx, tx, snapshot>>

\* group.delete(query) when find(query) is not empty
Delete ==
    /\ Tick
    /\ CanStart
    /\ \E docs \in UNION {FindResults(Mem, q) : q \in Queries} :
         /\ docs # <<>>
         /\ \E R \in {DeleteOp(Mem, Sto, security, FreshTxn, docs)} :
                /\ SetMem(R.m)
                /\ SetSto(R.S)
                /\ last' = DidWrite("delete", R.res, R.S, {docs[i].id : i \in 1..Len(docs)})
    /\ UNCHANGED <<up, security, txn_ctx, tx, snapshot>>

\* group.create_index(field, unique)
CreateIndex ==
    /\ Tick
    /\ up
    /\ \E c \in IndexInputs :
         \E R \in {CreateIndexMem(Mem, c[1], c[2], TRUE)} :
             /\ SetMem(R.m)
             /\ last' = Did("create_index", IF R.ok THEN "ok" ELSE "dup", 0, {})
    /\ UNCHANGED <<up, last_sequence, txn_buffers, security, txn_ctx, tx, snapshot, wal,
                   wal_header>>

\* with db.begin(): __enter__
ScopeEnter ==
    /\ Tick
    /\ CanStart
    /\ tx.mode = "none"
    /\ LET txn == FreshTxn
       IN  /\ SetSto(BeginTxn(Sto, txn))
           /\ txn_ctx' = txn
           /\ tx' = [NoTx EXCEPT !.mode = "scope", !.txn_id = txn,
                                 !.entry = DocSet(data_groups)]
    /\ last' = Did("enter", "ok", 0, {})
    /\ UNCHANGED <<up, data_groups, data_indexes, indexes, unique_indexes, dirty, security,
                   snapshot>>

\* __exit__'s finally: _txn_ctx.reset(token) puts back what the slot held
\* when the scope was entered, which is None since scopes are entered only
\* with no transaction current
CtxResetSkipped(ctx) == ctx

CtxReset(ctx) == 0

\* the scope ends normally: __exit__ calls commit(), then resets the context
ScopeExit ==
    /\ Tick
    /\ up
    /\ tx.mode = "scope"
    /\ \E R \in {TxCommitOp(Mem, Sto, security, tx, FreshTxn)} :
           /\ SetMem(R.m)
           /\ SetSto(R.S)
           /\ last' = DidWrite("exit", "ok", R.S, tx.ins)
    /\ txn_ctx' = CtxReset(txn_ctx)
    /\ tx' = NoTx
    /\ UNCHANGED <<up, security, snapshot>>

\* db.refresh() on a clean storage: load(), then _rebuild_indexes for the
\* group, which is not reached when load() raises; [ok, loaded, m, seq]
RefreshOp(m, seq, key, snap, frames, hdr) ==
    LET L == Load([g |-> m.g, defs |-> m.defs, dirty |-> m.dirty, seq |-> seq, key |-> key,
                   pw |-> Password], snap, frames, hdr)
        R == RebuildIndexes([g |-> L.g, ix |-> m.ix, ux |-> m.ux, defs |-> L.defs,
                             dirty |-> L.dirty])
    IN  IF L.ok THEN [ok |-> R.ok, loaded |-> TRUE, m |-> R.m, seq |-> L.seq]
        ELSE [ok |-> FALSE, loaded |-> FALSE, m |-> m, seq |-> seq]

\* the scope ends with an exception: __exit__ calls rollback(), which calls
\* rollback_txn and db.refresh(); refresh raises RuntimeError on a dirty
\* storage; then the context is reset
ScopeFail ==
    /\ Tick
    /\ up
    /\ tx.mode = "scope"
    /\ LET S == RollbackTxn(Sto, security, tx.txn_id)
           R == RefreshOp(Mem, S.seq, security, snapshot, S.wal, S.hdr)
       IN  IF dirty
           THEN /\ SetSto(S)
                /\ last' = DidWrite("fail", "error", S, tx.ins)
                /\ UNCHANGED <<data_groups, data_indexes, indexes, unique_indexes, dirty>>
           ELSE /\ SetMem(R.m)
                /\ SetSto([S EXCEPT !.seq = R.seq])
                /\ last' = DidWrite("fail", IF R.ok THEN "ok" ELSE "error", S, tx.ins)
    /\ txn_ctx' = CtxReset(txn_ctx)
    /\ tx' = NoTx
    /\ UNCHANGED <<up, security, snapshot>>

\* HVPTransactionGroup.insert / update / delete: add_op on the Transaction
\* object (made by db.begin() here when there is none), memory untouched
AddOp ==
    /\ Tick
    /\ CanStart
    /\ LET found == UNION {FindResults(Mem, q) : q \in Queries}
           given == {d \in InsertInputs : d.id = 0 => HasFreshId}
           inserts == {<<[op |-> "insert",
                          id |-> IF d.id = 0 THEN FreshId ELSE d.id,
                          d |-> IF d.id = 0 THEN [d EXCEPT !.id = FreshId] ELSE d]>> :
                         d \in given}
           updates == {[i \in 1..Len(docs) |->
                          [op |-> "update", id |-> docs[i].id, d |-> Merge(docs[i], u)]] :
                         docs \in found, u \in Updates}
           deletes == {[i \in 1..Len(docs) |->
                          [op |-> "delete", id |-> docs[i].id, d |-> docs[i]]] :
                         docs \in found}
       IN  \E new \in inserts \cup updates \cup deletes :
             /\ new # <<>>
             /\ Len(tx.ops) + Len(new) <= MaxOps
             /\ tx' = IF tx.mode = "none"
                      THEN [NoTx EXCEPT !.mode = "plain", !.ops = new]
                      ELSE [tx EXCEPT !.ops = @ \o new]
    /\ last' = Did("add_op", "ok", 0, {})
    /\ UNCHANGED <<up, data_groups, data_indexes, indexes, unique_indexes, dirty,
                   last_sequence, txn_buffers, security, txn_ctx, snapshot, wal, wal_header>>

\* tx.commit() on a Transaction that was not entered
TxCommit ==
    /\ Tick
    /\ up
    /\ tx.mode = "plain"
    /\ HasFreshTxn
    /\ \E R \in {TxCommitOp(Mem, Sto, security, tx, FreshTxn)} :
           /\ SetMem(R.m)
           /\ SetSto(R.S)
           /\ last' = DidWrite("tx_commit", "ok", R.S, {tx.ops[i].id : i \in 1..Len(tx.ops)})
    /\ tx' = NoTx
    /\ UNCHANGED <<up, security, txn_ctx, snapshot>>

\* tx.rollback() on a Transaction that was not entered: the ops are dropped
TxRollback ==
    /\ Tick
    /\ up
    /\ tx.mode = "plain"
    /\ tx' = NoTx
    /\ last' = Did("tx_rollback", "ok", 0, {})
    /\ UNCHANGED <<up, data_groups, data_indexes, indexes, unique_indexes, dirty,
                   last_sequence, txn_buffers, security, txn_ctx, snapshot, wal, wal_header>>

\* db.commit() on a dirty storage: save() replaces the snapshot, truncates
\* the WAL and writes its header again
DbCommit ==
    /\ Tick
    /\ up
    /\ dirty
    /\ \E R \in {SaveOp(Mem, Sto, security)} :
           /\ snapshot' = R.snap
           /\ SetSto(R.S)
           /\ SetMem(R.m)
    /\ last' = Did("commit", "ok", 0, {})
    /\ UNCHANGED <<up, security, txn_ctx, tx>>

\* db.storage.save() on a clean storage (on a dirty one it is what
\* db.commit() does); "save_again" marks a save that follows a save with no
\* operation between
Save ==
    /\ Tick
    /\ up
    /\ ~dirty
    /\ \E R \in {SaveOp(Mem, Sto, security)} :
           /\ snapshot' = R.snap
           /\ SetSto(R.S)
           /\ SetMem(R.m)
    /\ last' = Did(IF last.op \in {"commit", "save", "save_again"} THEN "save_again" ELSE "save",
                   "ok", 0, {})
    /\ UNCHANGED <<up, security, txn_ctx, tx>>

\* db.refresh(): HVPStorage.refresh raises RuntimeError on a dirty storage
\* and changes nothing; on a clean one it calls load(), and the indexes of
\* the group are rebuilt
Refresh ==
    /\ Tick
    /\ up
    /\ IF dirty
       THEN /\ last' = Did("refresh", "error", 0, {})
            /\ UNCHANGED <<data_groups, data_indexes, indexes, unique_indexes, dirty,
                           last_sequence, txn_buffers>>
       ELSE \E R \in {RefreshOp(Mem, last_sequence, security, snapshot, wal, wal_header)} :
                /\ SetMem(R.m)
                /\ last_sequence' = R.seq
                /\ last' = Did("refresh", IF R.ok THEN "ok" ELSE "error", 0, {})
                /\ txn_buffers' = IF R.loaded
                                  THEN [x \in TxnIds |-> [i \in 1..Len(txn_buffers[x]) |->
                                           [txn_buffers[x][i] EXCEPT !.live = FALSE]]]
                                  ELSE txn_buffers
    /\ UNCHANGED <<up, security, txn_ctx, tx, snapshot, wal, wal_header>>

\* a new process opens the database found on disk
Reopen(op, snap, frames, hdr) ==
    \E O \in {Open(snap, frames, hdr)} :
        /\ up' = O.ok
        /\ SetMem(IF O.ok THEN O.m
                  ELSE [g |-> <<>>, ix |-> NoIndexes, ux |-> NoUniques, defs |-> <<>>,
                        dirty |-> FALSE])
        /\ last_sequence' = IF O.ok THEN O.seq ELSE 0
        /\ security' = IF O.ok THEN O.key ELSE 0
        /\ txn_buffers' = NoBuffers
        /\ txn_ctx' = 0
        /\ tx' = NoTx
        /\ snapshot' = snap
        /\ wal' = frames
        /\ wal_header' = hdr
        /\ last' = Did(op, IF O.ok THEN "ok" ELSE "error", 0, {})

\* db.close() (commit(), the key cleared), the process ends, and the
\* database is opened again
CloseReopen ==
    /\ Tick
    /\ up
    /\ IF dirty
       THEN \E R \in {SaveOp(Mem, Sto, security)} :
                Reopen("close_reopen", R.snap, R.S.wal, R.S.hdr)
       ELSE Reopen("close_reopen", snapshot, wal, wal_header)

\* the process dies between two operations and the database is opened again
CrashReopen ==
    /\ Tick
    /\ up
    /\ snapshot.exists \/ HasFreshSalt(wal, wal_header)
    /\ Reopen("crash_reopen", snapshot, wal, wal_header)

\* the process dies in save() after os.replace put the new snapshot in place
\* and before wal.truncate(): the WAL file is as it was; then the database
\* is opened again
SaveCrashReopen ==
    /\ Tick
    /\ up
    /\ Reopen("save_crash_reopen", SaveOp(Mem, Sto, security).snap, wal, wal_header)

\* the process dies while the last operation writes its frames: the file keeps
\* n of them, whole, and possibly a part of the next; then the database is
\* opened again
TornReopen ==
    /\ Tick
    /\ up
    /\ last.wrote > 0
    /\ snapshot.exists \/ HasFreshSalt(wal, wal_header)
    /\ \E n \in 0..(last.wrote - 1), part \in BOOLEAN :
         Reopen("torn_reopen", snapshot,
                SubSeq(wal, 1, Len(wal) - last.wrote + n)
                    \o (IF part THEN <<TornFrame>> ELSE <<>>),
                wal_header)

Next ==
    \/ Insert
    \/ Update
    \/ Delete
    \/ CreateIndex
    \/ ScopeEnter
    \/ ScopeExit
    \/ ScopeFail
    \/ AddOp
    \/ TxCommit
    \/ TxRollback
    \/ DbCommit
    \/ Save
    \/ Refresh
    \/ CloseReopen
    \/ CrashReopen
    \/ SaveCrashReopen
    \/ TornReopen

Spec == Init /\ [][Next]_vars

\* ------------------------------------------- save() and load() side by side
\* Several processes have the same database open and run save() and load()
\* on it.  One action is one step of a call that another process can see:
\* taking a lock, opening or writing a file, the rename, returning.  The
\* filesystem supports flock: a lock that conflicts with one held by another
\* process blocks.

\* the locks of other processes that block the acquisition of a lock:
\* LOCK_SH on .lock (reader), LOCK_EX on .lock (swap), LOCK_EX on .writelock
ConflictsNoWriter(lock) ==
    CASE lock = "reader" -> {"swap"}
      [] lock = "swap" -> {"reader", "swap"}
      [] lock = "writer" -> {}

ConflictsSharedSwap(lock) ==
    CASE lock = "reader" -> {}
      [] lock = "swap" -> {"swap"}
      [] lock = "writer" -> {"writer"}

Conflicts(lock) ==
    CASE lock = "reader" -> {"swap"}
      [] lock = "swap" -> {"reader", "swap"}
      [] lock = "writer" -> {"writer"}

\* portalocker.lock returns: no other process holds a conflicting lock
CanLock(p, lock) == \A q \in Procs \ {p} : held[q] \cap Conflicts(lock) = {}

\* the context managers' "finally": unlock and close what the call took
ReleaseInner(h, locks) == h \ (locks \ {"writer"})

Release(h, locks) == h \ locks

\* open(temp_path, 'wb'): the body goes to the .tmp sibling, which is empty
\* until it is written
OpenInPlace(p, n, snap, tmp) == [snap |-> FileOf(p, n, FALSE), tmp |-> tmp]

OpenTmp(p, n, snap, tmp) == [snap |-> snap, tmp |-> FileOf(p, n, FALSE)]

\* the positions of save() between taking the writer lock and returning
SaveSections == {"save_open", "save_write", "save_swap", "save_rename", "save_truncate"}

\* the positions of save() inside critical_swap_lock
SwapSections == {"save_rename", "save_truncate"}

\* a call ends: its locks are released and its outcome is remembered
Return(p, how) ==
    /\ pc' = [pc EXCEPT ![p] = "idle"]
    /\ held' = [held EXCEPT ![p] = Release(@, {"reader", "writer", "swap"})]
    /\ ret' = [ret EXCEPT ![p] = how]

\* save(): with self.lock_manager.writer_lock()
SaveBegin(p) ==
    /\ pc[p] = "idle"
    /\ gen[p] < MaxGen
    /\ CanLock(p, "writer")
    /\ held' = [held EXCEPT ![p] = @ \cup {"writer"}]
    /\ gen' = [gen EXCEPT ![p] = @ + 1]
    /\ pc' = [pc EXCEPT ![p] = "save_open"]
    /\ ret' = [ret EXCEPT ![p] = "none"]
    /\ UNCHANGED <<mvars, reader, committed, wal_owner, snap_file, tmp_file>>

\* save(): open(temp_path, 'wb') truncates the temp file
SaveOpenTmp(p) ==
    /\ pc[p] = "save_open"
    /\ LET F == OpenTmp(p, gen[p], snap_file, tmp_file)
       IN  snap_file' = F.snap /\ tmp_file' = F.tmp
    /\ pc' = [pc EXCEPT ![p] = "save_write"]
    /\ UNCHANGED <<mvars, reader, committed, held, wal_owner, gen, ret>>

\* save(): header, nonce and ciphertext are written, flushed and fsynced.
\* The file is this save's whole output only when no other process has
\* opened it for writing in between.
SaveWriteTmp(p) ==
    /\ pc[p] = "save_write"
    /\ tmp_file' = FileOf(p, gen[p], tmp_file = FileOf(p, gen[p], FALSE))
    /\ pc' = [pc EXCEPT ![p] = "save_swap"]
    /\ UNCHANGED <<mvars, reader, committed, held, wal_owner, snap_file, gen, ret>>

\* save(): with self.lock_manager.critical_swap_lock()
SaveSwapLock(p) ==
    /\ pc[p] = "save_swap"
    /\ CanLock(p, "swap")
    /\ held' = [held EXCEPT ![p] = @ \cup {"swap"}]
    /\ pc' = [pc EXCEPT ![p] = "save_rename"]
    /\ UNCHANGED <<mvars, reader, committed, wal_owner, snap_file, tmp_file, gen, ret>>

\* save(): os.replace(temp_path, self.filepath)
SaveRename(p) ==
    /\ pc[p] = "save_rename"
    /\ tmp_file # NoFile
    /\ snap_file' = tmp_file
    /\ tmp_file' = NoFile
    /\ pc' = [pc EXCEPT ![p] = "save_truncate"]
    /\ UNCHANGED <<mvars, reader, committed, held, wal_owner, gen, ret>>

\* save(): self.wal.truncate(), on the own open handle or on a new one that
\* waits for the file's exclusive lock; then both locks are released
SaveTruncate(p) ==
    /\ pc[p] = "save_truncate"
    /\ wal_owner \in {0, p}
    /\ Return(p, IF ret[p] = "closing" THEN "closed" ELSE "ok")
    /\ UNCHANGED <<mvars, reader, committed, wal_owner, snap_file, tmp_file, gen>>

\* save() or load() raises: an I/O error in a write, the rename failing after
\* its retries, a decryption failure.  The files stay as they are.
Fail(p) ==
    /\ pc[p] \in SaveSections \cup {"load_read"}
    /\ Return(p, "error")
    /\ UNCHANGED <<mvars, reader, committed, wal_owner, snap_file, tmp_file, gen>>

\* the process dies inside a call: the system closes its files and with them
\* drops its locks
Crash(p) ==
    /\ pc[p] # "idle"
    /\ Return(p, "crash")
    /\ wal_owner' = IF wal_owner = p THEN 0 ELSE wal_owner
    /\ UNCHANGED <<mvars, reader, committed, snap_file, tmp_file, gen>>

\* load(): with self.lock_manager.reader_lock()
LoadBegin(p) ==
    /\ pc[p] = "idle"
    /\ CanLock(p, "reader")
    /\ held' = [held EXCEPT ![p] = @ \cup {"reader"}]
    /\ pc' = [pc EXCEPT ![p] = "load_read"]
    /\ ret' = [ret EXCEPT ![p] = "none"]
    /\ UNCHANGED <<mvars, reader, committed, wal_owner, snap_file, tmp_file, gen>>

\* load(): the snapshot is read and decrypted and the reader lock released
LoadRead(p) ==
    /\ pc[p] = "load_read"
    /\ held' = [held EXCEPT ![p] = Release(@, {"reader"})]
    /\ pc' = [pc EXCEPT ![p] = "load_replay"]
    /\ ret' = [ret EXCEPT ![p] = IF snap_file.whole THEN "none" ELSE "partial"]
    /\ UNCHANGED <<mvars, reader, committed, wal_owner, snap_file, tmp_file, gen>>

\* load(): _replay_wal() closes the own WAL handle and reads the file
LoadReplay(p) ==
    /\ pc[p] = "load_replay"
    /\ wal_owner' = IF wal_owner = p THEN 0 ELSE wal_owner
    /\ pc' = [pc EXCEPT ![p] = "idle"]
    /\ ret' = [ret EXCEPT ![p] = IF @ = "partial" THEN @ ELSE "ok"]
    /\ UNCHANGED <<mvars, reader, committed, held, snap_file, tmp_file, gen>>

\* a WAL append outside save() and load(), on a database that is not
\* closed: _open_log() opens the file and keeps its exclusive lock with the
\* handle
WalAppend(p) ==
    /\ pc[p] = "idle"
    /\ ret[p] # "closed"
    /\ wal_owner = 0
    /\ wal_owner' = p
    /\ ret' = [ret EXCEPT ![p] = "none"]
    /\ UNCHANGED <<mvars, reader, committed, pc, held, snap_file, tmp_file, gen>>

\* db.close() on a dirty storage: commit() calls save(); the key is cleared
\* when save() has returned.  Nothing in close() touches the WAL handle.
CloseBegin(p) ==
    /\ pc[p] = "idle"
    /\ gen[p] < MaxGen
    /\ CanLock(p, "writer")
    /\ held' = [held EXCEPT ![p] = @ \cup {"writer"}]
    /\ gen' = [gen EXCEPT ![p] = @ + 1]
    /\ pc' = [pc EXCEPT ![p] = "save_open"]
    /\ ret' = [ret EXCEPT ![p] = "closing"]
    /\ UNCHANGED <<mvars, reader, committed, wal_owner, snap_file, tmp_file>>

\* db.close() on a clean storage (what the process appended to the WAL has
\* been checkpointed by a save() of its own): commit() does nothing and the
\* key is cleared
Close(p) ==
    /\ pc[p] = "idle"
    /\ wal_owner = p => ret[p] = "ok"
    /\ ret' = [ret EXCEPT ![p] = "closed"]
    /\ UNCHANGED <<mvars, reader, committed, pc, held, wal_owner, snap_file, tmp_file, gen>>

NextSave ==
    \E p \in Procs :
        \/ CloseBegin(p)
        \/ Close(p)
        \/ SaveBegin(p)
        \/ SaveOpenTmp(p)
        \/ SaveWriteTmp(p)
        \/ SaveSwapLock(p)
        \/ SaveRename(p)
        \/ SaveTruncate(p)
        \/ Fail(p)
        \/ Crash(p)
        \/ LoadBegin(p)
        \/ LoadRead(p)
        \/ LoadReplay(p)
        \/ WalAppend(p)

SpecSave == Init /\ [][NextSave]_vars

\* ------------------------------------------- opening what is on disk
\* The database is used and reopened while its snapshot header can be
\* changed on disk and other processes try to open it.

\* one field of the header of the snapshot file is changed on disk
Tamper ==
    /\ Tick
    /\ snapshot.exists
    /\ HeaderOf(snapshot) = snapshot.aad
    /\ \E snap \in Tampered(snapshot) : snapshot' = snap
    /\ last' = Did("tamper", "ok", 0, {})
    /\ UNCHANGED <<up, data_groups, data_indexes, indexes, unique_indexes, dirty,
                   last_sequence, txn_buffers, security, txn_ctx, tx, wal, wal_header>>

\* another process calls HVPDB(path, password) with another password on the
\* files of the database, and ends; load() writes to neither file
OpenWrong ==
    /\ Tick
    /\ snapshot.exists \/ wal # <<>>
    /\ HasFreshSalt(wal, wal_header)
    /\ LET O == OpenAs(WrongPassword, snapshot, wal, wal_header)
       IN  last' = Did("open_wrong", IF O.ok THEN "ok" ELSE "error", 0, {})
    /\ UNCHANGED <<up, data_groups, data_indexes, indexes, unique_indexes, dirty,
                   last_sequence, txn_buffers, security, txn_ctx, tx, snapshot, wal,
                   wal_header>>

\* another process opens the files of the database with the database's
\* password, the header of the WAL file carrying another version, and ends
OpenWalVersion ==
    /\ Tick
    /\ snapshot.exists
    /\ HeaderOf(snapshot) = snapshot.aad
    /\ wal # <<>>
    /\ \E v \in {1, 3} :
         LET O == OpenAs(Password, snapshot, ReadableFrames(v, wal), wal_header)
         IN  last' = Did("open_wal_version", IF O.ok THEN "ok" ELSE "error", 0, {})
    /\ UNCHANGED <<up, data_groups, data_indexes, indexes, unique_indexes, dirty,
                   last_sequence, txn_buffers, security, txn_ctx, tx, snapshot, wal,
                   wal_header>>

NextOpen ==
    \/ OpenWalVersion
    \/ Insert
    \/ DbCommit
    \/ Refresh
    \/ CloseReopen
    \/ CrashReopen
    \/ Tamper
    \/ OpenWrong

SpecOpen == Init /\ [][NextOpen]_vars

\* ------------------------------------------- a write of the WAL that fails
\* group.insert(data) outside a scope, the unique check passed, and
\* write_batch raises in commit_txn
InsertWriteFails ==
    /\ Tick
    /\ CanStart
    /\ txn_ctx = 0
    /\ \E d \in InsertInputs, written \in BOOLEAN, marked \in BOOLEAN :
         /\ d.id = 0 => HasFreshId
         /\ LET data == IF d.id = 0 THEN [d EXCEPT !.id = FreshId] ELSE d
                R == InsertOpWriteFails(Mem, Sto, security, FreshTxn, data, written, marked)
            IN  /\ InsertMem(Mem, data).ok
                /\ SetMem(R.m)
                /\ SetSto(R.S)
                /\ last' = DidWrite("insert_io_error", R.res, R.S, {data.id})
    /\ UNCHANGED <<up, security, txn_ctx, tx, snapshot>>

NextIo ==
    \/ Insert
    \/ InsertWriteFails
    \/ CreateIndex
    \/ DbCommit
    \/ CrashReopen

SpecIo == Init /\ [][NextIo]_vars

\* ------------------------------------------------- replay of any WAL file
\* HVPWAL.replay on the WAL files a writer can leave behind, whole or cut
\* or damaged: a storage that has read a snapshot of sequence last_sequence
\* and no documents calls _replay_wal().

\* the records a frame of the file can hold, the sequence number left open:
\* BEGIN, COMMIT and ROLLBACK of two transactions, and inserts of two
\* documents under these transactions or under no transaction id
ReplayKinds ==
    {Entry(0, x, type, "", 0, NoDoc, FALSE) :
        x \in {1, 2}, type \in {"BEGIN", "COMMIT", "ROLLBACK"}}
    \cup {Entry(0, x, "DATA", "insert", id, [NoDoc EXCEPT !.id = id], FALSE) :
            x \in {0, 1, 2}, id \in {1, 2}}

\* the frames of a file: written under the key of the database (1), with the
\* sequence numbers 1 up to the position c and 2 after it; a frame that cannot be
\* read is a torn one (LEN zero or too large, short read, CRC mismatch) or
\* one that does not decrypt (key 2)
ReplayFile(f, c, bad) ==
    [i \in 1..Len(f) |->
        LET e == [f[i] EXCEPT !.seq = IF i <= c THEN 1 ELSE 2]
        IN  IF i # bad THEN Frame(e, 1)
            ELSE IF e.type = "DATA" /\ e.txn = 0 /\ e.id = 1 THEN TornFrame
            ELSE Frame(e, 2)]

\* a transaction id is a uuid of one transaction: its BEGIN, when written,
\* comes before its other records and its COMMIT or ROLLBACK after them
WellFormed(frames) ==
    \A i, j \in 1..Len(frames) :
        (i < j /\ frames[i].txn # 0 /\ frames[i].txn = frames[j].txn) =>
            /\ frames[j].type # "BEGIN"
            /\ frames[i].type \notin {"COMMIT", "ROLLBACK"}

InitReplay ==
    /\ up = TRUE
    /\ data_groups = <<>>
    /\ data_indexes = <<>>
    /\ indexes = NoIndexes
    /\ unique_indexes = NoUniques
    /\ dirty = FALSE
    /\ last_sequence \in {0, 1}
    /\ txn_buffers = NoBuffers
    /\ security = 1
    /\ txn_ctx = 0
    /\ tx = NoTx
    /\ snapshot = NoSnapshot
    /\ \E n \in 0..MaxFrames :
          \E f \in [1..n -> ReplayKinds], c \in 0..n, bad \in 0..n :
              /\ WellFormed(f)
              /\ wal = ReplayFile(f, c, bad)
    /\ wal_header = 1
    /\ last = Did("open", "ok", 0, {})
    /\ steps = 0
    /\ pc = [p \in Procs |-> "idle"]
    /\ held = [p \in Procs |-> {}]
    /\ wal_owner = 0
    /\ snap_file = FileOf(0, 0, TRUE)
    /\ tmp_file = NoFile
    /\ gen = [p \in Procs |-> 0]
    /\ ret = [p \in Procs |-> "none"]
    /\ reader = [snap |-> NoSnapshot, g |-> <<>>, done |-> FALSE]
    /\ committed = <<{}>>

\* _replay_wal(): wal.replay with _apply_entry as the callback, _dirty set
\* when an entry was applied
ReplayWal ==
    /\ Tick
    /\ last.op = "open"
    /\ LET applied == Replay(wal, last_sequence, security)
           st == ApplyAll([g |-> data_groups, seq |-> last_sequence], applied)
       IN  /\ data_groups' = st.g
           /\ last_sequence' = st.seq
           /\ dirty' = (dirty \/ Len(applied) > 0)
           /\ last' = Did("replay", "ok", 0, {applied[i].id : i \in 1..Len(applied)})
    /\ UNCHANGED <<up, data_indexes, indexes, unique_indexes, txn_buffers, security, txn_ctx,
                   tx, snapshot, wal, wal_header>>

NextReplay == ReplayWal

SpecReplay == InitReplay /\ [][NextReplay]_vars

\* ------------------------------------- load() beside a process that writes
\* Process 1 has the database open, commits transactions and checkpoints
\* with save().  Process 2 has it open with the same key and calls load()
\* once.  The filesystem supports flock.  save() is one step here: the reader
\* lock of load() and the swap lock of save() exclude each other, and a WAL
\* read between the rename and the truncation gives what a read before the
\* save() gives.

\* process 1: group.insert of a new document or group.delete of a stored
\* one, outside any transaction; _open_log() leaves the WAL handle open with
\* its exclusive lock
WriterCommit ==
    /\ up
    /\ Len(committed) <= MaxCommits
    /\ HasFreshTxn
    /\ \E kind \in {"insert", "delete"} :
       \E id \in Ids :
         LET data == [id |-> id, k |-> Null, t |-> Null]
             R == IF kind = "insert" THEN InsertOp(Mem, Sto, security, 0, FreshTxn, data)
                  ELSE DeleteOp(Mem, Sto, security, FreshTxn, <<data>>)
         IN  /\ kind = "insert" =>
                    \A i \in 1..Len(committed) : \A d \in committed[i] : d.id # id
             /\ kind = "delete" => data \in DocSet(data_groups)
             /\ R.res = "ok"
             /\ SetMem(R.m)
             /\ SetSto(R.S)
             /\ committed' = Append(committed, DocSet(R.m.g))
             /\ last' = DidWrite(kind, R.res, R.S, {id})
    /\ wal_owner' = 1
    /\ UNCHANGED <<up, security, txn_ctx, tx, snapshot, steps, pc, held, snap_file, tmp_file,
                   gen, ret, reader>>

\* process 1: db.commit() on a dirty storage: the snapshot is replaced and
\* the WAL truncated on the handle the process holds
WriterSave ==
    /\ up
    /\ dirty
    /\ \E R \in {SaveOp(Mem, Sto, security)} :
           /\ snapshot' = R.snap
           /\ SetSto(R.S)
           /\ SetMem(R.m)
    /\ last' = Did("commit", "ok", 0, {})
    /\ UNCHANGED <<up, security, txn_ctx, tx, steps, fvars>>

\* process 1 ends: the system closes its WAL handle and the exclusive lock
\* goes with it
WriterClose ==
    /\ up
    /\ wal_owner = 1
    /\ up' = FALSE
    /\ wal_owner' = 0
    /\ last' = Did("exit", "ok", 0, {})
    /\ UNCHANGED <<data_groups, data_indexes, indexes, unique_indexes, dirty, last_sequence,
                   txn_buffers, security, txn_ctx, tx, snapshot, wal, wal_header, steps,
                   pc, held, snap_file, tmp_file, gen, ret, reader, committed>>

\* process 2, load(): under the reader lock the snapshot file is read,
\* decrypted and unpacked, and the lock is released
ReaderLoad ==
    /\ pc[2] = "idle"
    /\ ~reader.done
    /\ reader' = [reader EXCEPT !.snap = snapshot]
    /\ pc' = [pc EXCEPT ![2] = "load_replay"]
    /\ UNCHANGED <<mvars, held, wal_owner, snap_file, tmp_file, gen, ret, committed>>

\* process 2, load(): _replay_wal() after the reader lock is released;
\* wal.replay takes LOCK_SH on the WAL file, which waits for the handle of
\* process 1 to close, and applies the committed records above the sequence
\* number of the snapshot that was read
ReaderReplay ==
    /\ pc[2] = "load_replay"
    /\ wal_owner = 0
    /\ LET L == Load([g |-> <<>>, defs |-> <<>>, dirty |-> FALSE, seq |-> 0,
                      key |-> security, pw |-> Password], reader.snap, wal, wal_header)
       IN  reader' = [reader EXCEPT !.g = L.g, !.done = TRUE]
    /\ pc' = [pc EXCEPT ![2] = "idle"]
    /\ UNCHANGED <<mvars, held, wal_owner, snap_file, tmp_file, gen, ret, committed>>

NextRead ==
    \/ WriterCommit
    \/ WriterSave
    \/ WriterClose
    \/ ReaderLoad
    \/ ReaderReplay

SpecRead == Init /\ [][NextRead]_vars

\* ------------------------------------------------------------ properties
\* the reopen operations: the process that opened the database is gone
Reopens == {"close_reopen", "crash_reopen", "torn_reopen"}

\* no two documents of g hold the same non-null value in field f
NoDuplicate(g, f) ==
    \A i, j \in 1..Len(g) : (i # j /\ Get(g[i], f) # Null) => Get(g[i], f) # Get(g[j], f)

\* the documents of the snapshot with the committed records of the WAL on top
Durable ==
    ApplyAll([g |-> snapshot.g, seq |-> snapshot.seq],
             Replay(wal, snapshot.seq, IF snapshot.exists THEN snapshot.salt ELSE wal_header)).g

\* C1: crash recovery completeness.  With every transaction committed (no
\* scope open, no buffered Transaction pending) a crash between two
\* operations followed by a reopen yields the documents that were in memory,
\* whether or not a snapshot was ever written.
C1_RecoveryComplete ==
    [][(last'.op = "crash_reopen" /\ tx.mode = "none")
         => (up' /\ DocSet(data_groups') = DocSet(data_groups))]_vars

C3_RollbackRestores ==
    [][(last'.op = "fail" /\ tx.ins # {}) => DocSet(data_groups') = tx.entry]_vars

\* C4: scoped commit is all-or-nothing.  After a scope exits normally every
\* document inserted in it (and still in the group when it exits) is in the
\* group, a crash right after the exit followed by a reopen recovers all of
\* them, and a crash before the exit recovers none that the group did not
\* hold when the scope was entered.
C4_ScopedCommitAtomic ==
    [][/\ last'.op = "exit"
             => \A id \in tx.ins : HasDoc(data_groups, id) => HasDoc(data_groups', id)
       /\ (last.op = "exit" /\ last'.op = "crash_reopen")
             => \A id \in last.ids :
                   HasDoc(data_groups, id) => DocOf(data_groups', id) = DocOf(data_groups, id)
       /\ (tx.mode = "scope" /\ last'.op \in {"crash_reopen", "torn_reopen"})
             => \A d \in DocSet(data_groups') : d.id \in tx.ins => d \in tx.entry]_vars

\* C5: a unique-index violation leaves memory unchanged.  After an insert or
\* update that fails on a duplicate value the group's documents and its
\* indexes are what they were before the call.
C5_DupLeavesMemory ==
    [][(last'.op \in {"insert", "update"} /\ last'.res = "dup")
         => /\ data_groups' = data_groups
            /\ indexes' = indexes
            /\ unique_indexes' = unique_indexes]_vars

C7_UniqueKept ==
    [][/\ up' => \A i \in 1..Len(data_indexes') :
                    data_indexes'[i].u => NoDuplicate(data_groups', data_indexes'[i].f)
       /\ last'.op \notin (Reopens \cup {"create_index"})
             => \A i \in 1..Len(data_indexes) :
                   (data_indexes[i].u /\ NoDuplicate(Durable, data_indexes[i].f))
                      => NoDuplicate(Durable', data_indexes[i].f)]_vars

\* C8: index consistency.  For every index of the group, every document with
\* a non-null value v in the indexed field is listed under v, and under v a
\* unique index holds that document's id and no other.
C8_IndexesConsistent ==
    up => \A f \in Fields : \A i \in 1..Len(data_groups) :
             LET d == data_groups[i]
             IN  Get(d, f) # Null =>
                    /\ indexes[f].def => InSeq(indexes[f].map[Get(d, f)], d.id)
                    /\ unique_indexes[f].def => unique_indexes[f].map[Get(d, f)] = d.id

\* C9: monotonic sequence.  While one database stays open last_seq never
\* decreases from one operation to the next.
C9_SeqMonotonic ==
    [][last'.op \notin Reopens => last_sequence' >= last_sequence]_vars

Saves == {"commit", "save", "save_again"}

\* C11: checkpoint truncates the WAL.  After save() the WAL holds its header
\* and no record, and a reopen of the files succeeds, replays nothing, is
\* not dirty and holds the documents and the last_seq that memory holds.
C11_CheckpointTruncates ==
    [][last'.op \in Saves =>
         LET O == Open(snapshot', wal', wal_header')
         IN  /\ wal' = <<>>
             /\ wal_header' = security'
             /\ O.ok
             /\ Replay(wal', snapshot'.seq, O.key) = <<>>
             /\ ~O.m.dirty
             /\ O.m.g = data_groups'
             /\ O.seq = last_sequence']_vars

\* a save that has just checkpointed documents whose records were in the WAL
C11_Witness ==
    /\ last.op = "commit"
    /\ wal = <<>>
    /\ wal_header = security
    /\ snapshot.g # <<>>
    /\ snapshot.seq > 0

\* C12: idempotent save.  A save() that follows a save() with no operation
\* between writes a snapshot with the same body (documents, index
\* definitions, seq) and salt, and leaves a header-only WAL.
C12_SaveIdempotent ==
    [][last'.op = "save_again"
         => (snapshot' = snapshot /\ wal' = <<>> /\ wal_header' = wal_header)]_vars

\* a second save in a row over a snapshot that holds a document
C12_Witness ==
    /\ last.op = "save_again"
    /\ snapshot.exists
    /\ snapshot.g # <<>>
    /\ ~dirty

\* C13: during save() and after a crash or an error at any step of it, the
\* file at the snapshot path is a complete snapshot, the previous one or the
\* new one; it changes only by the rename of a completely written temp file.
C13_SnapshotNeverPartial ==
    [][/\ snap_file'.whole
       /\ snap_file' # snap_file =>
            /\ tmp_file.whole
            /\ snap_file' = tmp_file
            /\ \E p \in Procs : pc[p] = "save_rename" /\ pc'[p] = "save_truncate"]_vars

\* a save has been published, and a later save has died with its temp file
\* half written
C13_Witness ==
    \E p \in Procs :
        /\ ret[p] = "crash"
        /\ tmp_file = FileOf(p, gen[p], FALSE)
        /\ snap_file.by # 0
        /\ snap_file.whole

C15_LockCompatibility ==
    /\ \A p, q \in Procs :
           (p # q /\ "reader" \in held[p]) => (pc[q] \notin SwapSections /\ "swap" \notin held[q])
    /\ \A p \in Procs :
           (\A q \in Procs \ {p} : pc[q] \notin SwapSections) => CanLock(p, "reader")

\* two loads hold the reader lock while a third process holds the writer lock
C15_Witness ==
    \E p, q, r \in Procs :
        /\ p # q /\ p # r /\ q # r
        /\ "reader" \in held[p] /\ pc[p] = "load_read"
        /\ "reader" \in held[q] /\ pc[q] = "load_read"
        /\ "writer" \in held[r] /\ pc[r] = "save_write"

\* C16: a process that is not inside load() or save(), because the call
\* returned or raised or was never made, holds none of the three locks, and
\* load() holds none once it is past reading the snapshot.
C16_LocksReleased ==
    \A p \in Procs : pc[p] \in {"idle", "load_replay"} => held[p] = {}

\* a save() has raised inside the swap section or while waiting for it, after
\* its temp file was written
C16_Witness ==
    \E p \in Procs :
        /\ ret[p] = "error"
        /\ pc[p] = "idle"
        /\ tmp_file = FileOf(p, gen[p], TRUE)
        /\ held[p] = {}

\* C17: a group mutation made while a scoped transaction is current writes
\* nothing to the WAL file: its record waits in the buffer of the scope's
\* transaction until the scope commits.
C17_ScopedParticipation ==
    [][(/\ tx.mode = "scope"
        /\ txn_ctx # 0
        /\ last'.op \in {"insert", "update", "delete"}
        /\ last'.res = "ok")
       => (/\ wal' = wal
           /\ \A t \in TxnIds \ {txn_ctx} : txn_buffers'[t] = txn_buffers[t])]_vars

\* C18: when a scoped transaction has exited, by commit, by rollback or
\* with the rollback raising, the current-transaction slot is empty again,
\* and an insert that follows writes a transaction of its own to the WAL
\* file: BEGIN, DATA, COMMIT under a new id, nothing left in a buffer.
C18_SlotCleared ==
    [][/\ last'.op \in {"exit", "fail"} => txn_ctx' = 0
       /\ (/\ last.op \in {"exit", "fail"}
           /\ last'.op = "insert"
           /\ last'.res = "ok")
          => LET n == Len(wal)
             IN  /\ Len(wal') = n + 3
                 /\ wal'[n + 1].type = "BEGIN"
                 /\ wal'[n + 2].type = "DATA" /\ wal'[n + 2].id \in last'.ids
                 /\ wal'[n + 3].type = "COMMIT"
                 /\ wal'[n + 1].txn = wal'[n + 2].txn
                 /\ wal'[n + 2].txn = wal'[n + 3].txn
                 /\ \A i \in 1..n : wal[i].txn # wal'[n + 1].txn
                 /\ txn_buffers'[wal'[n + 1].txn] = <<>>]_vars

\* an insert has committed by itself after a scope that was rolled back
C18_Witness ==
    /\ last.op = "insert"
    /\ last.res = "ok"
    /\ last.wrote = 3
    /\ txn_ctx = 0
    /\ \E i \in 1..Len(wal) : wal[i].type = "ROLLBACK"

\* C19: an open of the database's files with another password raises, and
\* leaves the snapshot file and the WAL file as they are.
C19_WrongPasswordFails ==
    [][last'.op = "open_wrong"
       => (/\ last'.res = "error"
           /\ snapshot' = snapshot
           /\ wal' = wal
           /\ wal_header' = wal_header)]_vars

\* C20: with a snapshot file whose header differs in a field from what
\* save() wrote, load() raises: a refresh leaves documents, index
\* definitions, indexes, _dirty and _last_sequence as they were, and an open
\* gives no database object.
C20_AadBinding ==
    [][(/\ last'.op \in {"refresh", "close_reopen", "crash_reopen"}
        /\ snapshot'.exists
        /\ HeaderOf(snapshot') # snapshot'.aad)
       => (/\ last'.res = "error"
           /\ last'.op = "refresh" =>
                /\ up'
                /\ <<data_groups, data_indexes, indexes, unique_indexes, dirty,
                     last_sequence>>' =
                   <<data_groups, data_indexes, indexes, unique_indexes, dirty,
                     last_sequence>>
           /\ last'.op # "refresh" => ~up')]_vars

\* a refresh has failed on a changed header while memory holds documents
C20_Witness ==
    /\ last.op = "refresh"
    /\ last.res = "error"
    /\ snapshot.exists
    /\ HeaderOf(snapshot) # snapshot.aad
    /\ data_groups # <<>>
    /\ ~dirty
    /\ up

\* C21: for every equality query, every list that find can return holds
\* exactly the documents of the group that the matcher accepts, each once.
C21_FindEqualsMatcher ==
    \A q \in Queries :
        \A r \in FindResults(Mem, q) :
            /\ {r[i] : i \in 1..Len(r)} = {d \in DocSet(data_groups) : Matches(d, q)}
            /\ \A i, j \in 1..Len(r) : i # j => r[i] # r[j]

\* C22: a refresh made while memory holds changes that no snapshot holds
\* completes, and leaves in memory the documents of the snapshot with the
\* committed records of the WAL on top, under indexes that match them.
C22_RefreshReloads ==
    [][(last'.op = "refresh" /\ data_groups # <<>> /\ (dirty \/ wal # <<>>))
       => (/\ last'.res = "ok"
           /\ data_groups' = Durable'
           /\ C8_IndexesConsistent')]_vars

\* C23: a process whose close() has returned holds no open handle, and
\* with it no exclusive lock, on the WAL file.
C23_CloseReleasesWal ==
    \A p \in Procs : (ret[p] = "closed" /\ pc[p] = "idle") => wal_owner # p

\* C24: an open fails when the version of the snapshot header is neither 1
\* nor 2, and when the version of the WAL header is not 2.
C24_UnsupportedVersions ==
    [][/\ (/\ last'.op \in {"close_reopen", "crash_reopen"}
           /\ snapshot'.exists
           /\ snapshot'.version \notin {1, 2})
          => (last'.res = "error" /\ ~up')
       /\ last'.op = "open_wal_version" => last'.res = "error"]_vars

\* C25: whatever the state, an update(Q, U) that returns gives the number of
\* documents the matcher accepts for Q; afterwards each of them is the old
\* document with the fields of U overwritten, and every other document is
\* as it was.
C25_UpdateFrame ==
    CanStart =>
        \A q \in Queries, u \in Updates :
            \A docs \in FindResults(Mem, q) :
                LET R == IF docs = <<>> THEN [res |-> "ok", m |-> Mem]
                         ELSE UpdateOp(Mem, Sto, security, FreshTxn, docs, u)
                    matched == {d \in DocSet(data_groups) : Matches(d, q)}
                IN  R.res = "ok" =>
                       /\ Len(docs) = Cardinality(matched)
                       /\ DocSet(R.m.g) =
                             {Merge(d, u) : d \in matched} \cup (DocSet(data_groups) \ matched)
                       /\ Len(R.m.g) = Len(data_groups)

\* C26: whatever the state, delete(Q) gives the number of documents the
\* matcher accepts for Q; afterwards no find returns one of them, no index
\* holds one of their ids, and every other document is as it was.
C26_DeleteFrame ==
    CanStart =>
        \A q \in Queries :
            \A docs \in FindResults(Mem, q) :
                LET R == IF docs = <<>> THEN [res |-> "ok", m |-> Mem]
                         ELSE DeleteOp(Mem, Sto, security, FreshTxn, docs)
                    matched == {d \in DocSet(data_groups) : Matches(d, q)}
                    gone == {d.id : d \in matched}
                IN  /\ Len(docs) = Cardinality(matched)
                    /\ DocSet(R.m.g) = DocSet(data_groups) \ matched
                    /\ \A q2 \in Queries : \A r \in FindResults(R.m, q2) :
                           \A i \in 1..Len(r) : r[i].id \notin gone
                    /\ \A f \in Fields, v \in Vals :
                           /\ \A id \in gone : ~InSeq(R.m.ix[f].map[v], id)
                           /\ R.m.ux[f].map[v] \notin gone

\* the position of the first frame of the file that replay cannot read
\* (one past the end when it can read them all)
FirstBad(frames, key) ==
    LET bad == {i \in 1..Len(frames) : frames[i].type = "TORN" \/ frames[i].key # key}
    IN  IF bad = {} THEN Len(frames) + 1
        ELSE CHOOSE i \in bad : \A j \in bad : i <= j

\* what the frame at position j gives the callback: itself when it has no
\* transaction id, and when it is a COMMIT the DATA records of its
\* transaction before it, in file order; only records newer than last_seq
AppliedAt(frames, last_seq, j) ==
    LET e == frames[j]
        idx == SelectSeq([i \in 1..(j - 1) |-> i],
                         LAMBDA i : /\ frames[i].txn = e.txn
                                    /\ frames[i].type = "DATA"
                                    /\ frames[i].seq > last_seq)
    IN  IF e.txn = 0
        THEN (IF e.seq > last_seq THEN <<e>> ELSE <<>>)
        ELSE IF e.type = "COMMIT"
        THEN [k \in 1..Len(idx) |-> frames[idx[k]]]
        ELSE <<>>

RECURSIVE AppliedUpTo(_, _, _)
AppliedUpTo(frames, last_seq, n) ==
    IF n = 0 THEN <<>>
    ELSE AppliedUpTo(frames, last_seq, n - 1) \o AppliedAt(frames, last_seq, n)

\* C27: replay hands to the callback exactly the DATA records newer than
\* last_seq of the transactions whose COMMIT it reads, once each, in order
\* inside a transaction and transactions in the order of their COMMITs, and
\* the records without a transaction id where they stand; the documents
\* after the replay are those records applied.
C27_ReplayIsolation ==
    [][last'.op = "replay"
       => LET expected == AppliedUpTo(wal, last_sequence,
                                      FirstBad(wal, security) - 1)
          IN  /\ Replay(wal, last_sequence, security) = expected
              /\ data_groups' = ApplyAll([g |-> data_groups, seq |-> last_sequence],
                                         expected).g]_vars

\* a replay has applied the record of a committed transaction that was
\* written without BEGIN and after the records of a transaction that was
\* rolled back or never committed
C27_Witness ==
    /\ last.op = "replay"
    /\ data_groups # <<>>
    /\ \E i, j, k \in 1..Len(wal) :
          /\ i < j /\ j < k
          /\ wal[i].type = "DATA" /\ wal[i].txn # 0 /\ wal[i].id \notin last.ids
          /\ wal[j].type = "DATA" /\ wal[j].txn \notin {0, wal[i].txn}
          /\ wal[j].id \in last.ids
          /\ wal[k].type = "COMMIT" /\ wal[k].txn = wal[j].txn
          /\ wal[1].type # "BEGIN"
          /\ FirstBad(wal, security) > Len(wal)

\* C28: replay returns at the first frame it cannot read: what it hands to
\* the callback is what it hands over for the frames before that frame,
\* and the documents applied from those frames are kept.
C28_StopsAtBadFrame ==
    [][last'.op = "replay"
       => LET good == SubSeq(wal, 1, FirstBad(wal, security) - 1)
              applied == Replay(good, last_sequence, security)
          IN  /\ last'.res = "ok"
              /\ Replay(wal, last_sequence, security) = applied
              /\ data_groups' = ApplyAll([g |-> data_groups, seq |-> last_sequence],
                                         applied).g
              /\ last'.ids = {applied[i].id : i \in 1..Len(applied)}]_vars

\* a replay has kept the document of the record before a frame it could not
\* read and has not applied the record of another document after that frame
C28_Witness ==
    /\ last.op = "replay"
    /\ \E n \in 2..(Len(wal) - 1) :
          /\ n = FirstBad(wal, security)
          /\ wal[n + 1].type = "DATA" /\ wal[n + 1].txn = 0 /\ wal[n + 1].key = security
          /\ wal[n + 1].seq > 1
          /\ wal[n + 1].id \notin last.ids
    /\ data_groups # <<>>

\* C29: when the process dies in save() between the rename of the snapshot
\* and the truncation of the WAL, the database opened again holds the
\* documents, the index definitions and the sequence number that save()
\* wrote: replay hands no record of the WAL file to the callback, and the
\* storage is not dirty.
C29_CrashBeforeTruncate ==
    [][last'.op = "save_crash_reopen"
       => /\ up' /\ last'.res = "ok"
          /\ data_groups' = data_groups
          /\ data_indexes' = data_indexes
          /\ last_sequence' = last_sequence
          /\ Replay(wal', snapshot'.seq, security') = <<>>
          /\ ~dirty']_vars

\* the database was opened after such a crash with committed records of
\* inserted documents still in the WAL file
C29_Witness ==
    /\ last.op = "save_crash_reopen"
    /\ up
    /\ data_groups # <<>>
    /\ \E i, j \in 1..Len(wal) :
          /\ i < j
          /\ wal[i].type = "DATA" /\ wal[i].op = "insert" /\ wal[i].key = security
          /\ wal[j].type = "COMMIT" /\ wal[j].txn = wal[i].txn /\ wal[j].key = security
          /\ HasDoc(data_groups, wal[i].id)

\* the frames a step appended to the WAL file
NewFrames == SubSeq(wal', Len(wal) + 1, Len(wal'))

\* C30: while a scoped transaction is open the WAL file holds none of its
\* records, and a step that commits (an implicit insert, update or delete,
\* the end of a scope, Transaction.commit() of add_op operations) makes one
\* write call per transaction it ends: BEGIN, every DATA and COMMIT go to
\* the file together.
C30_CommitIsOneBatch ==
    [][/\ txn_ctx' # 0 => \A i \in 1..Len(wal') : wal'[i].txn # txn_ctx'
       /\ (last'.op \in {"insert", "update", "delete", "exit", "tx_commit"}
           /\ Len(wal') >= Len(wal))
          => last'.calls = Cardinality({i \in 1..Len(NewFrames) :
                                          NewFrames[i].type \in {"COMMIT", "ROLLBACK"}})]_vars

\* C31: the records of the WAL file stand in the order they were written,
\* and each carries a sequence number above those of the records before
\* it: no two records share one.
C31_SeqUnique ==
    \A i, j \in 1..Len(wal) :
        (i < j /\ wal[i].type # "TORN" /\ wal[j].type # "TORN") => wal[i].seq < wal[j].seq

\* C32: the salt in the header of the WAL file is the salt of the key every
\* record of the file was written under and the salt of the snapshot; a
\* database opened without a snapshot on a WAL file with a header has the
\* key of that header and the documents of the file's committed records.
C32_WalKeyMatchesHeader ==
    /\ \A i \in 1..Len(wal) :
          wal[i].type # "TORN" => wal[i].key = DeriveKey(Password, wal_header, DefaultKdf)
    /\ (snapshot.exists /\ wal # <<>>) => wal_header = snapshot.salt
    /\ (up /\ last.op \in Reopens /\ ~snapshot.exists /\ wal_header # 0)
          => /\ security = DeriveKey(Password, wal_header, DefaultKdf)
             /\ data_groups = ApplyAll([g |-> <<>>, seq |-> 0], Replay(wal, 0, security)).g

C34_BufferedCommitEqualsDisk ==
    [][/\ last'.op = "add_op"
          => /\ data_groups' = data_groups
             /\ indexes' = indexes
             /\ unique_indexes' = unique_indexes
       /\ last'.op = "tx_commit" => DocSet(data_groups') = DocSet(Durable')]_vars

\* C35: when the write of the batch fails in the commit of an implicit
\* insert, the documents and the indexes in memory are those before the
\* call, and what a reopen recovers from the snapshot and the WAL file is
\* what it recovered before the call.
C35_WriteFailureRollsBack ==
    [][last'.op = "insert_io_error"
         => /\ last'.res = "error"
            /\ data_groups' = data_groups
            /\ indexes' = indexes
            /\ unique_indexes' = unique_indexes
            /\ Durable' = Durable]_vars

\* C36: a snapshot written while a scope is open holds none of the
\* documents the scope has inserted, and a reopen after a crash before the
\* end of the scope shows none of them.
C36_SnapshotCommittedOnly ==
    [][tx.mode = "scope"
         => LET scoped == tx.ins \ {d.id : d \in tx.entry}
            IN  /\ last'.op \in Saves => \A id \in scoped : ~HasDoc(snapshot'.g, id)
                /\ last'.op = "crash_reopen" => \A id \in scoped : ~HasDoc(data_groups', id)]_vars

\* C37: a load() that runs beside commits and a checkpoint of another process
\* ends with the documents the writer had after some prefix of its committed
\* transactions.
C37_ReaderSeesPrefix ==
    reader.done => \E i \in 1..Len(committed) : DocSet(reader.g) = committed[i]

\* C38: a create_index(field, unique = TRUE) that fails on duplicate values
\* leaves no unique index on the field, in memory or in the persisted
\* definitions, and every find returns what it returned before the call.
C38_FailedCreateIndexNoEffect ==
    [][(last'.op = "create_index" /\ last'.res = "dup") =>
          /\ unique_indexes' = unique_indexes
          /\ data_indexes' = data_indexes
          /\ \A q \in Queries :
                FindResults([Mem EXCEPT !.g = data_groups', !.ix = indexes',
                                        !.ux = unique_indexes'], q)
                = FindResults(Mem, q)]_vars

\* C39: a successful insert makes the group one document larger and leaves
\* every document it held as it was, also when the caller gives the _id; a
\* failed insert removes and alters no document the group held.
C39_InsertAddsOne ==
    [][(last'.op = "insert") =>
          /\ DocSet(data_groups) \subseteq DocSet(data_groups')
          /\ last'.res = "ok" => Len(data_groups') = Len(data_groups) + 1]_vars

\* C40: every id a non-unique index lists under a value, and the id a unique
\* index maps a value to, is a stored document whose field holds that value
\* now, and no id is twice in the list of one value.
C40_NoStaleIndexEntries ==
    up => \A f \in Fields : \A v \in Vals :
             LET ids == indexes[f].map[v]
                 Live(id) == \E j \in 1..Len(data_groups) :
                                data_groups[j].id = id /\ Get(data_groups[j], f) = v
             IN  /\ indexes[f].def =>
                        /\ \A i \in 1..Len(ids) : Live(ids[i])
                        /\ \A i, j \in 1..Len(ids) : i # j => ids[i] # ids[j]
                 /\ (unique_indexes[f].def /\ unique_indexes[f].map[v] # 0) =>
                        Live(unique_indexes[f].map[v])

====
